---- MODULE Spec2Model ----
(***************************************************************************)
(* A model of the steroids server bootstrap (src/src/@steroids/main.ts):   *)
(* module discovery, route installation, the module lifecycle and the      *)
(* start of the server, followed by the request validation middleware,     *)
(* the validator functions and the log writer (src/src/@steroids/core.ts). *)
(***************************************************************************)
EXTENDS Integers, Sequences, FiniteSets, TLC

VARIABLES
  pc,          \* position of the main script / promise chain
  services,    \* the services registry: modules in key insertion order
  routers,     \* the routers registry; a priority-sorted array after line 431
  config,      \* the effective configuration (predictive404, predictive404Priority)
  table,       \* app._router.stack: the installed layers, in order
  mountIdx,    \* index of the next router of the route installation loop
  predictive404Installed,
  lc,          \* position of initializeModules and the argument of the hook: [set, idx, phase, arg]
  events,      \* everything emitted with events.emitOnce and every hook call/return
  errors,      \* what was emitted on the 'error' channel
  listening,   \* app.listen was called
  launched,    \* the 'launch' event was emitted
  served,      \* requests handled since the server listens
  discovered,  \* history: the routers registry as installModule left it (before line 431)
  resp,        \* the last request served and what answered it
  constructed, \* history: the candidate installModule constructed last, and
               \* whether a constructor has thrown
  rq,          \* one request in the validation middleware of a route
  ev,          \* one call of a validator function: its arguments and what it gave
  lw           \* the LogWriter: its fields, the appends in flight and the .logs directory

bootVars == <<pc, services, routers, config, table, mountIdx,
              predictive404Installed, lc, events, errors, listening, launched, served,
              discovered, resp, constructed>>
vars == <<bootVars, rq, ev, lw>>

\* ---------------------------------------------------------------- bounds
MaxModules == 3
MaxServed == 1
MaxItems == 3
MaxLogs == 3
MaxOps == 2

\* ------------------------------------------------------- program constants
\* CONFIG_DEFAULT.predictive404Priority is Infinity: a number above every priority.
PInfinity == 1000

Phases == <<"inject", "config", "init">>

Names == {"a", "b"}
Priorities == {0, 5}
HookSets == { {}, {"inject", "init"}, {"inject", "config", "init"} }

\* Route definitions of a router: path, handler (a property name), method, and
\* validate: "undefined" when the route has none, "empty" for [], "rules" for a
\* list with rules.
Route(path, handler, validate) ==
  [path |-> path, handler |-> handler, method |-> "get", validate |-> validate]
\* The router classes of the model define the method "h" and the accessor "field"
\* (which gives no function), inherit the method "base" from a base class, and
\* their constructor assigns the function "bound" on the instance.
GoodRoute == Route("/p", "h", "rules")
BadRoute == Route("/q", "missing", "undefined")
InheritedRoute == Route("/i", "base", "undefined")
InstanceRoute == Route("/b", "bound", "undefined")
FieldRoute == Route("/f", "field", "undefined")
NoPathRoute == Route("", "h", "undefined")
NoHandlerRoute == Route("/n", "", "undefined")
EmptyRulesRoute == Route("/e", "h", "empty")
PlainRoute == Route("/u", "h", "undefined")
\* The router classes of the model: the hooks a class implements and its routes.
RouterShapes ==
  { [hooks |-> {}, routes |-> <<>>],
    [hooks |-> {"inject", "init"},
     routes |-> <<BadRoute, GoodRoute, InheritedRoute, InstanceRoute, FieldRoute,
                  NoPathRoute, NoHandlerRoute, EmptyRulesRoute, PlainRoute>>] }

\* What a candidate class gives when constructed (installModule, new module()).
Pool ==
  [kind : {"throws", "plain"}, name : {""}, hooks : {{}}, priority : {0}, routes : {<<>>}]
  \cup [kind : {"service"}, name : Names, hooks : HookSets, priority : {0}, routes : {<<>>}]
  \cup { [kind |-> "router", name |-> n, hooks |-> s.hooks, priority |-> p,
          routes |-> s.routes] : n \in Names, p \in Priorities, s \in RouterShapes }

\* The default configuration (lines 41-58) and one with the guard enabled below
\* priority 1.
Configs ==
  { [predictive404 |-> FALSE, predictive404Priority |-> PInfinity],
    [predictive404 |-> TRUE, predictive404Priority |-> PInfinity],
    [predictive404 |-> TRUE, predictive404Priority |-> 1] }

\* ------------------------------------------------------------ registries
\* What a hook is called with: an object (value), whether it is the very object
\* it was made from (alias) or a new one, and whether the hook has edited it.
HookArg(phase, object) ==
  [phase |-> phase, alias |-> object.alias, value |-> object.value, edited |-> FALSE]
NoArg == HookArg("none", [alias |-> FALSE, value |-> <<>>])

\* Mutant of Clone: the registry itself is handed out.
CloneShared(object) == [alias |-> TRUE, value |-> object]

\* _.clone(services): a new object with the entries of the registry
Clone(object) == [alias |-> FALSE, value |-> object]

\* _.cloneDeep(config): a new object with copies of the entries
CloneDeep(object) == [alias |-> FALSE, value |-> object]

\* Mutant of RegistrySet: a name that is registered keeps its module.
RegistryKeepFirst(reg, m) ==
  IF \E i \in 1..Len(reg) : reg[i].name = m.name THEN reg ELSE Append(reg, m)

\* registry[name] = module on a JavaScript object: an existing key keeps its place.
RegistrySet(reg, m) ==
  IF \E i \in 1..Len(reg) : reg[i].name = m.name
  THEN [i \in 1..Len(reg) |-> IF reg[i].name = m.name THEN m ELSE reg[i]]
  ELSE Append(reg, m)

\* _.orderBy(routers, priority, ['desc']): a stable sort into an array.
RECURSIVE InsertDesc(_, _)
InsertDesc(sorted, m) ==
  IF sorted = <<>> THEN <<m>>
  ELSE IF Head(sorted).priority >= m.priority
       THEN <<Head(sorted)>> \o InsertDesc(Tail(sorted), m)
       ELSE <<m>> \o sorted

\* Mutant of OrderByPriorityDesc: a sort that is not stable, routers of one
\* priority come out in the reverse of the order they went in.
RECURSIVE OrderByUnstable(_)
OrderByUnstable(reg) ==
  IF reg = <<>> THEN <<>>
  ELSE LET sorted == OrderByUnstable(SubSeq(reg, 1, Len(reg) - 1))
           m == reg[Len(reg)]
           before == SelectSeq(sorted, LAMBDA x : x.priority > m.priority)
           after == SelectSeq(sorted, LAMBDA x : x.priority <= m.priority)
       IN before \o <<m>> \o after

\* Mutant of OrderByPriorityDesc: the routers are left in registry order.
OrderByNothing(reg) == reg

RECURSIVE OrderByPriorityDesc(_)
OrderByPriorityDesc(reg) ==
  IF reg = <<>> THEN <<>>
  ELSE InsertDesc(OrderByPriorityDesc(SubSeq(reg, 1, Len(reg) - 1)), reg[Len(reg)])

\* ------------------------------------------------------------- discovery
\* The candidate adds a key to a registry (the model bounds the registries' size).
Registers(c) ==
  \/ c.kind = "service" /\ \A i \in 1..Len(services) : services[i].name # c.name
  \/ c.kind = "router" /\ \A i \in 1..Len(routers) : routers[i].name # c.name

NoCandidate == [kind |-> "none", name |-> "", hooks |-> {}, priority |-> 0, routes |-> <<>>]
NoneConstructed == [last |-> NoCandidate, threw |-> FALSE]

\* installModule, one candidate class: lines 101-131. A constructor that throws
\* and an instance without __metadata leave the registries as they are.
InstallModule ==
  /\ pc = "install"
  /\ \E c \in Pool :
       /\ Registers(c) => Len(services) + Len(routers) < MaxModules
       /\ services' = IF c.kind = "service" THEN RegistrySet(services, c) ELSE services
       /\ routers' = IF c.kind = "router" THEN RegistrySet(routers, c) ELSE routers
       /\ constructed' = [last |-> c, threw |-> constructed.threw \/ c.kind = "throws"]
  /\ UNCHANGED <<pc, config, table, mountIdx, predictive404Installed, lc, events, errors,
                 listening, launched, served, discovered, rq, resp, ev, lw>>

\* ------------------------------------------------------ route installation
Layer(kind, router, route, chain) ==
  [kind |-> kind, router |-> router, path |-> route.path, method |-> route.method,
   chain |-> chain]

NoRoute == [path |-> "", handler |-> "", method |-> "", validate |-> "undefined"]
StarRoute == [path |-> "*", handler |-> "", method |-> "", validate |-> "undefined"]

\* Lines 404-428: body parsers, cookie parser and their error handlers.
BaseLayers ==
  << Layer("bodyParser", "", NoRoute, <<>>), Layer("bodyError", "", NoRoute, <<>>),
     Layer("cookieParser", "", NoRoute, <<>>), Layer("cookieError", "", NoRoute, <<>>) >>

\* installPredictive404: app.use('*', guard)
GuardLayer == Layer("predictive404", "", StarRoute, <<>>)
Static404Layer == Layer("static404", "", StarRoute, <<>>)
ErrorLayer == Layer("errorHandler", "", NoRoute, <<>>)

\* Object.getOwnPropertyNames(Object.getPrototypeOf(router)): the properties the
\* router's own class defines.
PrototypeNames == {"h", "field"}
\* typeof router[name] === 'function': the functions reachable on the instance.
RouterMethods == {"h", "base", "bound"}

\* Mutant of RouteOk: the handler is not looked up on the router.
RouteOkUnchecked(route) ==
  /\ route.path # ""
  /\ route.handler # ""

\* Lines 461-474: the route has a path and a handler, the handler is a property
\* of the router's own prototype and a function.
RouteOk(route) ==
  /\ route.path # ""
  /\ route.handler # ""
  /\ route.handler \in PrototypeNames
  /\ route.handler \in RouterMethods

\* Lines 476-509: logger, validation (when route.validate is truthy, as every
\* array is), CORS, the bound handler.
HandlerChain(route) ==
  <<"logger">> \o (IF route.validate # "undefined" THEN <<"validate">> ELSE <<>>)
               \o <<"cors", "handler">>

\* Mutant of MountRoutes: a route that is not mounted ends the router's loop.
RECURSIVE MountRoutesUntilBad(_, _)
MountRoutesUntilBad(name, routes) ==
  IF routes = <<>> \/ ~RouteOk(Head(routes)) THEN <<>>
  ELSE <<Layer("route", name, Head(routes), HandlerChain(Head(routes)))>>
         \o MountRoutesUntilBad(name, Tail(routes))

\* Mutant of MountRoutes: the routes of a router are mounted last first.
RECURSIVE MountRoutesReversed(_, _)
MountRoutesReversed(name, routes) ==
  IF routes = <<>> THEN <<>>
  ELSE MountRoutesReversed(name, Tail(routes))
         \o (IF RouteOk(Head(routes))
             THEN <<Layer("route", name, Head(routes), HandlerChain(Head(routes)))>>
             ELSE <<>>)

RECURSIVE MountRoutes(_, _)
MountRoutes(name, routes) ==
  IF routes = <<>> THEN <<>>
  ELSE (IF RouteOk(Head(routes))
        THEN <<Layer("route", name, Head(routes), HandlerChain(Head(routes)))>>
        ELSE <<>>) \o MountRoutes(name, Tail(routes))

\* Lines 404-433: the middleware before the routes, then the routers sorted.
InstallMiddleware ==
  /\ pc = "install"
  /\ table' = table \o BaseLayers
  /\ discovered' = routers
  /\ routers' = OrderByPriorityDesc(routers)
  /\ predictive404Installed' = FALSE
  /\ mountIdx' = 1
  /\ pc' = "mount"
  /\ constructed' = NoneConstructed
  /\ UNCHANGED <<services, config, lc, events, errors, listening, launched,
                 served, rq, resp, ev, lw>>

\* Mutant of MountRouter: the test of predictive404Installed is missing.
MountRouterGuardEachTime ==
  /\ pc = "mount"
  /\ mountIdx <= Len(routers)
  /\ LET router == routers[mountIdx]
         guard == /\ config.predictive404
                  /\ config.predictive404Priority > router.priority
     IN /\ predictive404Installed' = (predictive404Installed \/ guard)
        /\ table' = table \o (IF guard THEN <<GuardLayer>> ELSE <<>>)
                          \o MountRoutes(router.name, router.routes)
  /\ mountIdx' = mountIdx + 1
  /\ UNCHANGED <<pc, services, routers, config, lc, events, errors, listening,
                 launched, served, discovered, rq, resp, constructed, ev, lw>>

\* Mutant of MountRouter: the guard goes before the first router above the threshold.
MountRouterAboveThreshold ==
  /\ pc = "mount"
  /\ mountIdx <= Len(routers)
  /\ LET router == routers[mountIdx]
         guard == /\ config.predictive404
                  /\ config.predictive404Priority < router.priority
                  /\ ~predictive404Installed
     IN /\ predictive404Installed' = (predictive404Installed \/ guard)
        /\ table' = table \o (IF guard THEN <<GuardLayer>> ELSE <<>>)
                          \o MountRoutes(router.name, router.routes)
  /\ mountIdx' = mountIdx + 1
  /\ UNCHANGED <<pc, services, routers, config, lc, events, errors, listening,
                 launched, served, discovered, rq, resp, constructed, ev, lw>>

\* Lines 436-515: one iteration of the loop over the sorted routers.
MountRouter ==
  /\ pc = "mount"
  /\ mountIdx <= Len(routers)
  /\ LET router == routers[mountIdx]
         guard == /\ config.predictive404
                  /\ config.predictive404Priority > router.priority
                  /\ ~predictive404Installed
     IN /\ predictive404Installed' = (predictive404Installed \/ guard)
        /\ table' = table \o (IF guard THEN <<GuardLayer>> ELSE <<>>)
                          \o MountRoutes(router.name, router.routes)
  /\ mountIdx' = mountIdx + 1
  /\ UNCHANGED <<pc, services, routers, config, lc, events, errors, listening,
                 launched, served, discovered, rq, resp, constructed, ev, lw>>

\* Mutant of FinishInstall: the guard is not installed after the loop.
FinishInstallNoLateGuard ==
  /\ pc = "mount"
  /\ mountIdx > Len(routers)
  /\ table' = table \o (IF ~config.predictive404 THEN <<Static404Layer>> ELSE <<>>)
                    \o <<ErrorLayer>>
  /\ lc' = [set |-> "services", idx |-> 1, phase |-> 1, arg |-> NoArg]
  /\ pc' = "lifecycle"
  /\ UNCHANGED <<services, routers, config, mountIdx, predictive404Installed, events,
                 errors, listening, launched, served, discovered, rq, resp, constructed, ev, lw>>

\* Lines 517-557: the guard if still missing, else the static 404, the error
\* handler, and the call of initializeModules(services).
FinishInstall ==
  /\ pc = "mount"
  /\ mountIdx > Len(routers)
  /\ LET late == config.predictive404 /\ ~predictive404Installed
     IN /\ predictive404Installed' = (predictive404Installed \/ late)
        /\ table' = table \o (IF late THEN <<GuardLayer>> ELSE <<>>)
                          \o (IF ~config.predictive404 THEN <<Static404Layer>> ELSE <<>>)
                          \o <<ErrorLayer>>
  /\ lc' = [set |-> "services", idx |-> 1, phase |-> 1, arg |-> NoArg]
  /\ pc' = "lifecycle"
  /\ UNCHANGED <<services, routers, config, mountIdx, events, errors,
                 listening, launched, served, discovered, rq, resp, constructed, ev, lw>>

\* Lines 436-551 run in one go for the sorted routers from the i-th on, the
\* flag predictive404Installed being installed: what is appended to the table.
RECURSIVE MountFrom(_, _, _, _)
MountFrom(sorted, i, installed, cfg) ==
  IF i > Len(sorted)
  THEN (IF cfg.predictive404 /\ ~installed THEN <<GuardLayer>> ELSE <<>>)
         \o (IF ~cfg.predictive404 THEN <<Static404Layer>> ELSE <<>>)
         \o <<ErrorLayer>>
  ELSE LET router == sorted[i]
           guard == /\ cfg.predictive404
                    /\ cfg.predictive404Priority > router.priority
                    /\ ~installed
       IN (IF guard THEN <<GuardLayer>> ELSE <<>>)
            \o MountRoutes(router.name, router.routes)
            \o MountFrom(sorted, i + 1, installed \/ guard, cfg)

\* Lines 404-551 run from scratch, on a new app, for a registry of routers and
\* a configuration.
CompileTable(reg, cfg) == BaseLayers \o MountFrom(OrderByPriorityDesc(reg), 1, FALSE, cfg)

\* --------------------------------------------------------------- lifecycle
\* module.__metadata.type === ModuleType.Service ? 'service' : 'router'
ModuleSet(set) == IF set = "services" THEN services ELSE routers

\* Mutant of Implements: a phase is run whether or not the module has the hook.
ImplementsAnyway(m, phase) == phase \in {"inject", "config", "init"}

\* module.onX && typeof module.onX === 'function'
Implements(m, phase) == phase \in m.hooks

\* An emission or a hook call/return, and the module whose iteration made it.
\* A notification's event name is kind:phase:edge (scope "global") or
\* name-kind:phase:edge (scope "named").
Emit(scope, m, phase, edge) ==
  [type |-> "emit", scope |-> scope, name |-> IF scope = "named" THEN m.name ELSE "",
   kind |-> m.kind, phase |-> phase, edge |-> edge, owner |-> <<m.kind, m.name>>]

Hook(type, m, phase) ==
  [type |-> type, scope |-> "hook", name |-> m.name, kind |-> m.kind, phase |-> phase,
   edge |-> "", owner |-> <<m.kind, m.name>>]

\* Lines 173-176, 189-192, 203-206: the notifications before the hook, then its call.
BeforeEvents(m, phase) ==
  << Emit("global", m, phase, "before"), Emit("named", m, phase, "before"),
     Hook("call", m, phase) >>

\* Mutant of AfterEvents: the notifications after the hook in the order of those before.
AfterEventsGlobalFirst(m, phase) ==
  << Hook("return", m, phase), Emit("global", m, phase, "after"),
     Emit("named", m, phase, "after") >>

\* Lines 178-179, 194-195, 208-209: the hook has returned, the notifications after it.
AfterEvents(m, phase) ==
  << Hook("return", m, phase), Emit("named", m, phase, "after"),
     Emit("global", m, phase, "after") >>

\* Mutant of Advance: one phase is run for every module of the set before the next
\* phase (phase batching across modules).
AdvanceBatched(l) ==
  IF l.idx < Len(ModuleSet(l.set)) THEN [l EXCEPT !.idx = l.idx + 1, !.arg = NoArg]
  ELSE IF l.phase < 3 THEN [l EXCEPT !.idx = 1, !.phase = l.phase + 1, !.arg = NoArg]
  ELSE [l EXCEPT !.idx = l.idx + 1, !.phase = 1, !.arg = NoArg]

\* The position after a phase of a module: its next phase, then the next module.
\* The argument of the hook (a const of the if block) is gone.
Advance(l) ==
  IF l.phase < Len(Phases) THEN [l EXCEPT !.phase = l.phase + 1, !.arg = NoArg]
  ELSE [l EXCEPT !.idx = l.idx + 1, !.phase = 1, !.arg = NoArg]

InModule == pc = "lifecycle" /\ lc.idx <= Len(ModuleSet(lc.set))
CurrentModule == ModuleSet(lc.set)[lc.idx]
CurrentPhase == Phases[lc.phase]

\* Lines 171, 187: componentServices for onInjection, componentConfig for
\* onConfig, nothing for onInit.
HookArgument(phase) ==
  CASE phase = "inject" -> HookArg(phase, Clone(services))
    [] phase = "config" -> HookArg(phase, CloneDeep(config))
    [] OTHER -> NoArg

\* A module that a hook puts into the object it was given.
StrayModule == [kind |-> "service", name |-> "stray", priority |-> 0, hooks |-> {},
                routes |-> <<>>]
Edits == {"add", "remove", "replace"}
\* The object after the hook added, removed or replaced an entry of it.
Edited(phase, object, edit) ==
  IF phase = "inject"
  THEN CASE edit = "add" -> Append(object, StrayModule)
         [] edit = "remove" -> IF object = <<>> THEN object ELSE Tail(object)
         [] OTHER -> IF object = <<>> THEN object ELSE [object EXCEPT ![1] = StrayModule]
  ELSE CASE edit = "add" ->
              [k \in DOMAIN object \cup {"added"} |->
                 IF k \in DOMAIN object THEN object[k] ELSE TRUE]
         [] edit = "remove" -> [k \in DOMAIN object \ {"predictive404"} |-> object[k]]
         [] OTHER -> [object EXCEPT !.predictive404 = ~@]

\* The hook, while it runs, edits the object it was called with; what it edits
\* is the registry or the configuration only if it was given that very object.
HookEdits ==
  /\ pc = "awaiting"
  /\ lc.arg.phase \in {"inject", "config"}
  /\ ~lc.arg.edited
  /\ \E edit \in Edits :
       LET object == Edited(lc.arg.phase, lc.arg.value, edit)
       IN /\ lc' = [lc EXCEPT !.arg.value = object, !.arg.edited = TRUE]
          /\ services' = IF lc.arg.alias /\ lc.arg.phase = "inject" THEN object
                         ELSE services
          /\ config' = IF lc.arg.alias /\ lc.arg.phase = "config" THEN object
                       ELSE config
  /\ UNCHANGED <<pc, routers, table, mountIdx, predictive404Installed, events,
                 errors, listening, launched, served, discovered, rq, resp,
                 constructed, ev, lw>>

\* The module implements the hook: notify, call it and await its result.
EnterPhase ==
  /\ InModule
  /\ Implements(CurrentModule, CurrentPhase)
  /\ events' = events \o BeforeEvents(CurrentModule, CurrentPhase)
  /\ lc' = [lc EXCEPT !.arg = HookArgument(CurrentPhase)]
  /\ pc' = "awaiting"
  /\ UNCHANGED <<services, routers, config, table, mountIdx,
                 predictive404Installed, errors, listening, launched, served,
                 discovered, rq, resp, constructed, ev, lw>>

\* The module does not implement the hook: the if is not entered.
SkipPhase ==
  /\ InModule
  /\ ~Implements(CurrentModule, CurrentPhase)
  /\ lc' = Advance(lc)
  /\ UNCHANGED <<pc, services, routers, config, table, mountIdx,
                 predictive404Installed, events, errors, listening, launched, served,
                 discovered, rq, resp, constructed, ev, lw>>

\* The awaited hook returned or its promise resolved.
HookResolves ==
  /\ pc = "awaiting"
  /\ events' = events \o AfterEvents(CurrentModule, CurrentPhase)
  /\ lc' = Advance(lc)
  /\ pc' = "lifecycle"
  /\ UNCHANGED <<services, routers, config, table, mountIdx,
                 predictive404Installed, errors, listening, launched, served, discovered, rq, resp, constructed, ev, lw>>

\* Mutant of HookRejects: the error is reported and the loop goes on.
HookRejectsLoopGoesOn ==
  /\ pc = "awaiting"
  /\ events' = Append(events, Hook("throw", CurrentModule, CurrentPhase))
  /\ errors' = Append(errors, "lifecycle")
  /\ lc' = Advance(lc)
  /\ pc' = "lifecycle"
  /\ UNCHANGED <<services, routers, config, table, mountIdx,
                 predictive404Installed, listening, launched, served, discovered, rq, resp, constructed, ev, lw>>

\* The awaited hook threw or its promise rejected: initializeModules rejects, the
\* .then of line 558 is skipped and the .catch of lines 563-568 reports the error.
HookRejects ==
  /\ pc = "awaiting"
  /\ events' = Append(events, Hook("throw", CurrentModule, CurrentPhase))
  /\ errors' = Append(errors, "lifecycle")
  /\ lc' = [lc EXCEPT !.arg = NoArg]
  /\ pc' = "start"
  /\ UNCHANGED <<services, routers, config, table, mountIdx,
                 predictive404Installed, listening, launched, served, discovered, rq, resp, constructed, ev, lw>>

\* Lines 558-562: initializeModules(services) resolved, initializeModules(routers).
ServicesDone ==
  /\ pc = "lifecycle"
  /\ lc.set = "services"
  /\ lc.idx > Len(services)
  /\ lc' = [set |-> "routers", idx |-> 1, phase |-> 1, arg |-> NoArg]
  /\ UNCHANGED <<pc, services, routers, config, table, mountIdx,
                 predictive404Installed, events, errors, listening, launched, served,
                 discovered, rq, resp, constructed, ev, lw>>

\* initializeModules(routers) resolved: the .catch is passed over.
RoutersDone ==
  /\ pc = "lifecycle"
  /\ lc.set = "routers"
  /\ lc.idx > Len(routers)
  /\ pc' = "start"
  /\ UNCHANGED <<services, routers, config, table, mountIdx,
                 predictive404Installed, lc, events, errors, listening, launched, served,
                 discovered, rq, resp, constructed, ev, lw>>

\* ------------------------------------------------------------------ server
\* Mutant of StartServer: app.listen is called beside the chain, not at its end.
StartServerBesideChain ==
  /\ pc = "lifecycle"
  /\ ~listening
  /\ listening' = TRUE
  /\ UNCHANGED <<pc, services, routers, config, table, mountIdx,
                 predictive404Installed, lc, events, errors, launched, served, discovered, rq, resp, constructed, ev, lw>>

\* Lines 569-572: the last .then of the chain calls app.listen.
StartServer ==
  /\ pc = "start"
  /\ listening' = TRUE
  /\ pc' = "binding"
  /\ UNCHANGED <<services, routers, config, table, mountIdx,
                 predictive404Installed, lc, events, errors, launched, served, discovered, rq, resp, constructed, ev, lw>>

\* Lines 572-587: the callback of app.listen, with or without an error.
ListenCallback ==
  /\ pc = "binding"
  /\ \E failed \in BOOLEAN :
       /\ errors' = IF failed THEN Append(errors, "listen") ELSE errors
       /\ launched' = ~failed
       /\ pc' = IF failed THEN "down" ELSE "serving"
  /\ UNCHANGED <<services, routers, config, table, mountIdx,
                 predictive404Installed, lc, events, listening, served, discovered, rq, resp, constructed, ev, lw>>

\* A request reaches the table: the layers are read, none is added. A request has
\* a path, possibly a query string, a method, and the handler it reaches may throw.
Paths == {"/p", "/q"}
Methods == {"get", "post"}
HttpRequest(path, query, method, throws) ==
  [path |-> path, query |-> query, method |-> method, throws |-> throws]
\* The requests of the model: each path with GET, and for "/p" also with a query
\* string, with another method, and with a handler that throws.
HttpRequests ==
  {HttpRequest(path, FALSE, "get", FALSE) : path \in Paths}
  \cup {HttpRequest("/p", TRUE, "get", FALSE), HttpRequest("/p", FALSE, "post", FALSE),
        HttpRequest("/p", FALSE, "get", TRUE)}

\* req.originalUrl: the path with the query string, if any.
OriginalUrl(req) == [path |-> req.path, query |-> req.query]

\* layer.match(url) of a route's layer: its regular expression is made from the
\* route's path and ends where the path ends, so no url with a query string matches.
Matches(layer, url) == layer.kind = "route" /\ layer.path = url.path /\ ~url.query

\* Lines 329-340: the predictive 404 guard counts the layers matching the url
\* (the layers without a path, fast_slash, and those of '*', fast_star, are left out).
GuardVerdict(url) ==
  IF \E i \in 1..Len(table) : Matches(table[i], url) THEN "next" ELSE "404"

\* new ServerError(message, httpCode = 500, code = 'UNKOWN_ERROR'): lines 983-987
DefaultCode == "UNKOWN_ERROR"

Answer(status, code, by, reports) ==
  [status |-> status, code |-> code, by |-> by, reports |-> reports]

\* The router of express: the layers in order, from the i-th. A route's layer
\* takes the request when path and method match; a handler that throws hands the
\* error to the next error handler; without one left, express answers itself.
RECURSIVE Dispatch(_, _, _)
Dispatch(i, req, error) ==
  IF i > Len(table)
  THEN Answer(IF error THEN 500 ELSE 404, "", "express", 0)
  ELSE
    LET layer == table[i]
    IN IF error
       THEN IF layer.kind = "errorHandler" THEN Answer(500, DefaultCode, "errorHandler", 1)
            ELSE IF layer.kind = "bodyError" THEN Answer(400, "INVALID_BODY", "bodyError", 0)
            ELSE IF layer.kind = "cookieError"
            THEN Answer(400, "INVALID_COOKIES", "cookieError", 0)
            ELSE Dispatch(i + 1, req, error)
       ELSE CASE layer.kind = "route" /\ layer.path = req.path /\ layer.method = req.method ->
                   IF req.throws THEN Dispatch(i + 1, req, TRUE)
                   ELSE Answer(200, "", "handler", 0)
              [] layer.kind = "predictive404" ->
                   IF GuardVerdict(OriginalUrl(req)) = "next" THEN Dispatch(i + 1, req, error)
                   ELSE Answer(404, "ROUTE_NOT_FOUND", "predictive404", 0)
              [] layer.kind = "static404" -> Answer(404, "ROUTE_NOT_FOUND", "static404", 0)
              [] OTHER -> Dispatch(i + 1, req, error)

NoAnswer == [req |-> HttpRequest("", FALSE, "", FALSE),
             ans |-> Answer(0, "", "", 0)]

ServeRequest ==
  /\ pc = "serving"
  /\ served < MaxServed
  /\ \E req \in HttpRequests :
       LET ans == Dispatch(1, req, FALSE)
       IN /\ resp' = [req |-> req, ans |-> ans]
          /\ errors' = IF ans.reports = 1 THEN Append(errors, "request") ELSE errors
  /\ served' = served + 1
  /\ UNCHANGED <<pc, services, routers, config, table, mountIdx,
                 predictive404Installed, lc, events, listening, launched,
                 discovered, rq, constructed, ev, lw>>

\* ------------------------------------------------------ request values
\* A JavaScript value: its type, a number (the value of a number, the length of a
\* string or an array) and the own properties of an object.
Absent == [t |-> "absent", n |-> 0, f |-> <<>>]
Undef == [t |-> "undef", n |-> 0, f |-> <<>>]
Null == [t |-> "null", n |-> 0, f |-> <<>>]
Num(n) == [t |-> "num", n |-> n, f |-> <<>>]
Str == [t |-> "str", n |-> 1, f |-> <<>>]
Arr == [t |-> "arr", n |-> 0, f |-> <<>>]

\* An object literal of up to three keys; a key whose value is Absent is left out.
Obj3(k1, v1, k2, v2, k3, v3) ==
  LET val(k) == IF k = k1 THEN v1 ELSE IF k = k2 THEN v2 ELSE v3
  IN [t |-> "obj", n |-> 0,
      f |-> [k \in {x \in {k1, k2, k3} : val(x).t # "absent"} |-> val(k)]]
Obj1(k1, v1) == Obj3(k1, v1, k1, v1, k1, v1)
Obj0 == Obj1("", Absent)

\* values.hasOwnProperty(key): the method is looked up on the object, where an
\* own property named hasOwnProperty hides Object.prototype's.
Shadowed(v) == "hasOwnProperty" \in DOMAIN v.f
Has(v, key) == key \in DOMAIN v.f
\* values[key]
Get(v, key) == IF Has(v, key) THEN v.f[key] ELSE Undef
\* v && typeof v === 'object' && v.constructor === Object
PlainObject(v) == v.t = "obj"

\* The request bodies of the model: {k, t, hasOwnProperty} over {a, n, hasOwnProperty}
\* over {b}, and two bodies that are no object.
NValues == {Absent, Num(1), Obj0, Obj1("b", Num(1)), Obj1("b", Num(2))}
KValues ==
  {Absent, Num(1), Arr, Null}
  \cup { Obj3("a", a, "n", n, "hasOwnProperty", h) :
           a \in {Absent, Num(1), Str}, n \in NValues, h \in {Absent, Num(1)} }
Bodies ==
  {Undef, Str}
  \cup { Obj3("k", k, "t", t, "hasOwnProperty", h) :
           k \in KValues, t \in {Absent, Num(1), Str}, h \in {Absent, Num(1)} }
Requests ==
  { [headers |-> Obj3("h", h, "g", g, "g", g),
      query |-> Obj3("q", q, "p", p, "p", p), body |-> b] :
      h \in {Absent, Str}, g \in {Absent, Str}, q \in {Absent, Str},
      p \in {Absent, Str}, b \in Bodies }

\* ----------------------------------------------------------- validators
\* What a validator gives: true, false, an Error (with its message), undefined,
\* an object { valid: false, error }, or a throw or rejection: of an Error (with
\* its message), of undefined, or of an object { valid: false, error } (with its
\* error).
Res(r, msg) == [r |-> r, msg |-> msg]
Throws == {"throw", "throw-undefined", "throw-invalid"}
Bool(b) == Res(IF b THEN "true" ELSE "false", "")

\* resolveRef(ref, rawValues) for a reference of one segment (core.ts 49-64)
ResolveRef(ref, rawValues) == Get(rawValues, ref)

\* The validators of the model's routes, by name: exist (core.ts 306-310),
\* type.Number (78), equal(1) (141-149), equalRef('h') (154-162), len.gte(1)
\* (reads value.length), include(1) (280-288: value.includes && value.includes(1),
\* for the strings and arrays of the model, which do not include 1), and two
\* validators of the application that return an Error.
Validate(fn, value, rawValues) ==
  CASE fn = "exist" -> Bool(value.t # "undef")
    [] fn = "equalRef.h" -> Bool(value = ResolveRef("h", rawValues))
    [] fn = "isText" ->
         IF value.t = "str" THEN Bool(TRUE) ELSE Res("error", "E_TEXT")
    [] fn = "present" ->
         IF value.t # "undef" THEN Bool(TRUE) ELSE Res("throw-undefined", "")
    [] fn = "type.Number" -> Bool(value.t = "num")
    [] fn = "equal1" -> Bool(value.t = "num" /\ value.n = 1)
    [] fn = "len.gte1" ->
         IF value.t \in {"undef", "null"} THEN Res("throw", "TypeError")
         ELSE Bool(value.t \in {"str", "arr"} /\ value.n >= 1)
    [] fn = "mustBeOne" ->
         IF value.t = "num" /\ value.n = 1 THEN Bool(TRUE) ELSE Res("error", "E_ONE")
    [] fn = "include1" ->
         IF value.t \in {"undef", "null"} THEN Res("throw", "TypeError")
         ELSE IF value.t \in {"str", "arr"} THEN Bool(FALSE)
         ELSE Res("undefined", "")

\* The custom validators of the model's routes, called with the request.
ValidateRequest(fn, req) ==
  CASE fn = "hasToken" -> Bool(Has(req.query, "q"))
    [] fn = "verify" ->
         IF Has(req.headers, "h") THEN Bool(TRUE) ELSE Res("throw-invalid", "E_VERIFY")
    [] fn = "needsToken" ->
         IF Has(req.headers, "h") THEN Bool(TRUE) ELSE Res("error", "E_TOKEN")
    [] fn = "basicAuthValidator" ->
         IF Has(req.headers, "h") THEN Bool(TRUE) ELSE Res("object", "E_BASIC")

\* A validation definition: its keys in order, each a validator or a nested definition.
Leaf(key, fn) == [key |-> key, fn |-> fn, sub |-> <<>>]
Node(key, sub) == [key |-> key, fn |-> "", sub |-> sub]
\* headers(...), queries(...), body(...), custom(...): core.ts 582-585
Rule(type, def) == [type |-> type, def |-> def]
Custom(fn) == Rule("custom", <<Leaf("", fn)>>)

RouteA ==
  << Rule("header", <<Leaf("h", "exist"), Leaf("g", "equalRef.h")>>),
     Rule("body", << Node("k", <<Leaf("a", "type.Number"),
                                 Node("n", <<Leaf("b", "mustBeOne")>>)>>),
                     Leaf("t", "type.Number") >>),
     Custom("hasToken") >>
RouteB ==
  << Rule("body", << Leaf("t", "len.gte1"),
                     Node("k", <<Node("n", <<Leaf("b", "equal1")>>),
                                 Leaf("a", "exist")>>) >>),
     Rule("query", <<Leaf("p", "isText"), Leaf("q", "exist")>>),
     Custom("needsToken") >>
RouteC ==
  << Rule("query", <<Leaf("q", "exist"), Leaf("p", "present")>>),
     Custom("verify") >>
RouteD ==
  << Rule("body", <<Leaf("t", "include1")>>),
     Custom("basicAuthValidator") >>
Routes == {RouteA, RouteB, RouteC, RouteD}

\* ------------------------------------------------- validation middleware
\* A position of the evaluation: <<rule, key, key of the nested definition, ...>>,
\* each an index in declaration order.
Bump(pos) == [pos EXCEPT ![Len(pos)] = @ + 1]
Pop(pos) == Bump(SubSeq(pos, 1, Len(pos) - 1))

RECURSIVE EntryAt(_, _)
EntryAt(def, path) ==
  IF Len(path) = 1 THEN def[path[1]] ELSE EntryAt(def[path[1]].sub, Tail(path))

RECURSIVE LevelLen(_, _)
LevelLen(def, path) ==
  IF Len(path) = 1 THEN Len(def) ELSE LevelLen(def[path[1]].sub, Tail(path))

\* The values the entry at path is looked up in: values[key] of each enclosing key.
RECURSIVE Container(_, _, _)
Container(values, def, path) ==
  IF Len(path) = 1 THEN values
  ELSE Container(Get(values, def[path[1]].key), def[path[1]].sub, Tail(path))

\* keyPath: prefix + '.' + key, as the sequence of its keys (line 236).
RECURSIVE KeyPath(_, _)
KeyPath(def, path) ==
  IF Len(path) = 1 THEN <<def[path[1]].key>>
  ELSE <<def[path[1]].key>> \o KeyPath(def[path[1]].sub, Tail(path))

\* req.headers, req.query, req.body (lines 272, 279, 289)
RootOf(rule, req) ==
  CASE rule.type = "header" -> req.headers
    [] rule.type = "query" -> req.query
    [] OTHER -> req.body
TypeName(rule) == IF rule.type = "body" THEN "body property" ELSE rule.type

\* An Error: `Invalid ${type} '${path}'!` is text "Invalid" with its type and path.
Err(text, type, path) == [text |-> text, type |-> type, path |-> path]
NoErr == Err("", "", <<>>)

\* How a run of the async function ends: awaiting the validator at a position,
\* returning true (pass), returning an Error (fail), or thrown.
Outcome(st, at, invoked, err) == [st |-> st, at |-> at, invoked |-> invoked, err |-> err]
Pass == Outcome("pass", <<>>, <<>>, NoErr)
Fail(err) == Outcome("fail", <<>>, <<>>, err)
Throw(kind, msg) == Outcome(kind, <<>>, <<>>, Err(msg, "", <<>>))
Thrown == Throw("throw", "TypeError")

\* The parameter recursive of validateDefinition (line 231): none of the calls of
\* lines 272, 279 and 289 passes it, and the call of line 252 passes it on.
Recursive(rule) == FALSE

RECURSIVE Run(_, _, _)

\* Mutant of InvokeAndAwait: the validator is called without await, its promise
\* is neither false nor an Error and the loop goes on.
InvokeWithoutAwait(route, req, pos) ==
  LET rest == Run(route, req, Bump(pos))
  IN [rest EXCEPT !.invoked = <<pos>> \o @]

\* await validator(values[key], originalValues) (line 241), await validator(req) (296)
InvokeAndAwait(route, req, pos) == Outcome("await", pos, <<pos>>, NoErr)

\* The async function of lines 266-307 with validateDefinition (225-260), run from
\* a position to its next await or to its end.
Run(route, req, pos) ==
  IF pos[1] > Len(route) THEN Pass
  ELSE
    LET rule == route[pos[1]]
        path == Tail(pos)
        root == RootOf(rule, req)
    IN IF rule.type = "body" /\ path = <<1>> /\ ~PlainObject(root)
       THEN Fail(Err("Invalid body type!", "", <<>>))
       ELSE IF path[Len(path)] > LevelLen(rule.def, path)
       THEN IF Len(path) = 1 THEN Run(route, req, <<pos[1] + 1, 1>>)
            ELSE Run(route, req, Pop(pos))
       ELSE
         LET entry == EntryAt(rule.def, path)
             values == Container(root, rule.def, path)
         IN IF entry.fn # "" THEN InvokeAndAwait(route, req, pos)
            ELSE IF ~Recursive(rule) THEN Run(route, req, Bump(pos))
            ELSE IF Shadowed(values) THEN Thrown
            ELSE IF ~Has(values, entry.key) \/ ~PlainObject(Get(values, entry.key))
            THEN Fail(Err("Invalid", TypeName(rule), <<entry.key>>))
            ELSE Run(route, req, pos \o <<1>>)

\* Mutant of ArgsAt: a validator of a definition is called with (map, map).
ArgsAtWholeMap(route, req, pos) ==
  LET rule == route[pos[1]]
  IN IF rule.type = "custom" THEN <<req>>
     ELSE <<RootOf(rule, req), RootOf(rule, req)>>

\* The arguments of the call at a position: (values[key], originalValues) at
\* line 241, (req) at line 296.
ArgsAt(route, req, pos) ==
  LET rule == route[pos[1]]
      entry == EntryAt(rule.def, Tail(pos))
  IN IF rule.type = "custom" THEN <<req>>
     ELSE <<Get(Container(RootOf(rule, req), rule.def, Tail(pos)), entry.key),
            RootOf(rule, req)>>

\* The result of the validator at a position.
ResultAt(route, req, pos) ==
  LET rule == route[pos[1]]
      entry == EntryAt(rule.def, Tail(pos))
      args == ArgsAt(route, req, pos)
  IN IF rule.type = "custom" THEN ValidateRequest(entry.fn, args[1])
     ELSE Validate(entry.fn, args[1], args[2])

\* Mutant of Resume: the test result === false is missing.
ResumeFalseIgnored(route, req, pos) ==
  LET result == ResultAt(route, req, pos)
  IN IF result.r = "error" THEN Fail(Err(result.msg, "", <<>>))
     ELSE IF result.r \in Throws THEN Throw(result.r, result.msg)
     ELSE Run(route, req, Bump(pos))

\* Mutant of Resume: a Custom rule's false is reported like a field's.
ResumeCustomAsField(route, req, pos) ==
  LET rule == route[pos[1]]
      result == ResultAt(route, req, pos)
  IN IF result.r = "false"
     THEN Fail(Err("Invalid", TypeName(rule), KeyPath(rule.def, Tail(pos))))
     ELSE IF result.r = "error" THEN Fail(Err(result.msg, "", <<>>))
     ELSE IF result.r \in Throws THEN Throw(result.r, result.msg)
     ELSE Run(route, req, Bump(pos))

\* The awaited validator has resolved: lines 243-244 and 298-299, then the loop.
Resume(route, req, pos) ==
  LET rule == route[pos[1]]
      result == ResultAt(route, req, pos)
  IN IF result.r = "false"
     THEN Fail(IF rule.type = "custom" THEN Err("Invalid request!", "", <<>>)
               ELSE Err("Invalid", TypeName(rule), KeyPath(rule.def, Tail(pos))))
     ELSE IF result.r = "error" THEN Fail(Err(result.msg, "", <<>>))
     ELSE IF result.r \in Throws THEN Throw(result.r, result.msg)
     ELSE Run(route, req, Bump(pos))

\* new ServerError(message, httpCode, code).respond(res)
Response(status, code, message) == [status |-> status, code |-> code, message |-> message]
NoResponse == Response(0, "", NoErr)

NoRequest ==
  [route |-> <<>>, req |-> [headers |-> Obj0, query |-> Obj0, body |-> Undef],
   st |-> "none", at |-> <<>>, pending |-> {}, calls |-> <<>>, outcome |-> Pass,
   res |-> NoResponse, nexts |-> 0, sent |-> 0, escaped |-> 0]
NewRequest(route, req) == [NoRequest EXCEPT !.route = route, !.req = req, !.st = "new"]

\* The state of the request after a run of the async function.
Absorb(r, o) ==
  [r EXCEPT !.st = IF o.st = "await" THEN "evaluating" ELSE "settled",
            !.at = o.at,
            !.pending = @ \cup {o.invoked[i] : i \in 1..Len(o.invoked)},
            !.calls = @ \o [i \in 1..Len(o.invoked) |->
                              [op |-> "invoke", pos |-> o.invoked[i], r |-> "",
                               args |-> ArgsAt(r.route, r.req, o.invoked[i])]],
            !.outcome = o]

\* Lines 264-268: the middleware is called and starts the async function.
BeginValidation ==
  /\ rq.st = "new"
  /\ rq' = Absorb(rq, Run(rq.route, rq.req, <<1, 1>>))
  /\ UNCHANGED <<bootVars, ev, lw>>

\* A called validator gives its result; the function awaiting it goes on.
ValidatorResolves ==
  /\ \E p \in rq.pending :
       LET result == ResultAt(rq.route, rq.req, p)
           r == [rq EXCEPT !.pending = @ \ {p},
                           !.calls = Append(@, [op |-> "resolve", pos |-> p,
                                                r |-> result.r,
                                                args |-> ArgsAt(rq.route, rq.req, p)])]
       IN rq' = IF rq.st = "evaluating" /\ p = rq.at
                THEN Absorb(r, Resume(rq.route, rq.req, p))
                ELSE r
  /\ UNCHANGED <<bootVars, ev, lw>>

\* rejectForValidation (lines 219-223)
RejectForValidation(message) == Response(400, "VALIDATION_FAILED", message)

\* Lines 308-319: the .then and the .catch of the async function. The .catch
\* reads error.valid, which throws when the value caught is undefined: the
\* promise of the chain is rejected and nothing is sent.
Deliver ==
  /\ rq.st = "settled"
  /\ rq' = [rq EXCEPT
              !.st = "done",
              !.nexts = IF rq.outcome.st = "pass" THEN @ + 1 ELSE @,
              !.sent = IF rq.outcome.st \in {"pass", "throw-undefined"} THEN @ ELSE @ + 1,
              !.escaped = IF rq.outcome.st = "throw-undefined" THEN @ + 1 ELSE @,
              !.res = CASE rq.outcome.st = "pass" -> @
                        [] rq.outcome.st = "fail" -> RejectForValidation(rq.outcome.err)
                        [] rq.outcome.st = "throw-undefined" -> @
                        [] OTHER -> Response(500, "VALIDATION_FAILED", rq.outcome.err)]
  /\ UNCHANGED <<bootVars, ev, lw>>

\* ------------------------------------------------- validator functions
\* More values: a string of a length, a boolean, an array of items.
StrN(n) == [t |-> "str", n |-> n, f |-> <<>>]
BoolV(b) == [t |-> "bool", n |-> IF b THEN 1 ELSE 0, f |-> <<>>]
ArrOf(items) == [t |-> "arr", n |-> Len(items), f |-> items]
\* A string of one digit, which reads as the number k.
NumStr(k) == [t |-> "str", n |-> 1, f |-> <<k>>]

\* +value, for the values that are no array and no object: undefined and a
\* string that is no numeral give NaN, null and the empty string give 0, and a
\* boolean gives 0 or 1.
ToNumber(value) ==
  CASE value.t \in {"num", "bool"} -> [nan |-> FALSE, n |-> value.n]
    [] value.t = "null" -> [nan |-> FALSE, n |-> 0]
    [] value.t = "str" /\ value.n = 0 -> [nan |-> FALSE, n |-> 0]
    [] value.t = "str" /\ value.f # <<>> -> [nan |-> FALSE, n |-> value.f[1]]
    [] OTHER -> [nan |-> TRUE, n |-> 0]

\* resolveRef (core.ts 49-64) for the segments of ref.split('.'): undefined ends
\* the walk, and reading a property of null throws.
RECURSIVE ResolveRefPath(_, _)
ResolveRefPath(segments, currentRef) ==
  IF segments = <<>> THEN [thrown |-> FALSE, value |-> currentRef]
  ELSE IF currentRef.t = "undef" THEN [thrown |-> FALSE, value |-> Undef]
  ELSE IF currentRef.t = "null" THEN [thrown |-> TRUE, value |-> Undef]
  ELSE ResolveRefPath(Tail(segments),
                      IF currentRef.t = "obj" THEN Get(currentRef, Head(segments)) ELSE Undef)

\* A validator function as the expression that made it: a validator of core.ts
\* with its argument (n, ref), a combinator with the validators it wraps (subs)
\* and the keys of its definition (keys), or a validator of the application that
\* gives always the same (gives). id tells the calls of the validators apart.
Validator(op, id, n, ref, gives, subs, keys) ==
  [op |-> op, id |-> id, n |-> n, ref |-> ref, gives |-> gives, subs |-> subs,
   keys |-> keys]
NoValidator == Validator("none", 0, 0, <<>>, "", <<>>, <<>>)
Stub(id, gives) == Validator("stub", id, 0, <<>>, gives, <<>>, <<>>)
\* What an asynchronous validator (models.ts 149) gives: a promise, which
\* resolves to true or to false.
Resolutions == {"resolves-true", "resolves-false"}
TypeString(id) == Validator("type.String", id, 0, <<>>, "", <<>>, <<>>)
TypeNumber(id) == Validator("type.Number", id, 0, <<>>, "", <<>>, <<>>)
\* A validator of the application: v => typeof v === 'number' ? true : new Error(...)
IsNumber(id) == Validator("isNumber", id, 0, <<>>, "", <<>>, <<>>)
LenGte(id, n) == Validator("len.gte", id, n, <<>>, "", <<>>, <<>>)
LenLte(id, n) == Validator("len.lte", id, n, <<>>, "", <<>>, <<>>)
NumGte(id, n) == Validator("num.gte", id, n, <<>>, "", <<>>, <<>>)
NumLte(id, n) == Validator("num.lte", id, n, <<>>, "", <<>>, <<>>)
EqualRef(id, ref) == Validator("equalRef", id, 0, ref, "", <<>>, <<>>)
And(subs) == Validator("and", 0, 0, <<>>, "", subs, <<>>)
Or(subs) == Validator("or", 0, 0, <<>>, "", subs, <<>>)
Sub(keys, subs) == Validator("sub", 0, 0, <<>>, "", subs, keys)
Not(validator) == Validator("not", 0, 0, <<>>, "", <<validator>>, <<>>)
Opt(validator) == Validator("opt", 0, 0, <<>>, "", <<validator>>, <<>>)
TypeArray(validator, arrayValidator) ==
  Validator("type.Array", 0, 0, <<>>, "", <<validator, arrayValidator>>, <<>>)

\* What a call of a validator gives (r: true, false, error, undefined, throw),
\* the Error given or thrown (named after the validator that made it), and the
\* calls of validators it made, in order.
Out(r, msg, calls) == [r |-> r, msg |-> msg, calls |-> calls]
Call(v, value) == [id |-> v.id, op |-> v.op, arg |-> value]

\* The validators that call no other validator.
ApplyLeaf(v, value, rawValues) ==
  LET ref == ResolveRefPath(v.ref, rawValues)
      r == CASE v.op = "stub" -> IF v.gives \in Resolutions THEN "promise" ELSE v.gives
             [] v.op = "type.String" -> IF value.t = "str" THEN "true" ELSE "false"
             [] v.op = "type.Number" -> IF value.t = "num" THEN "true" ELSE "false"
             [] v.op = "isNumber" -> IF value.t = "num" THEN "true" ELSE "error"
             [] v.op = "len.gte" ->
                  IF value.t \in {"undef", "null"} THEN "throw"
                  ELSE IF value.t \in {"str", "arr"} /\ value.n >= v.n THEN "true"
                  ELSE "false"
             [] v.op = "len.lte" ->
                  IF value.t \in {"undef", "null"} THEN "throw"
                  ELSE IF value.t \in {"str", "arr"} /\ value.n <= v.n THEN "true"
                  ELSE "false"
             [] v.op = "num.gte" ->
                  IF ~ToNumber(value).nan /\ ToNumber(value).n >= v.n THEN "true"
                  ELSE "false"
             [] v.op = "num.lte" ->
                  IF ~ToNumber(value).nan /\ ToNumber(value).n <= v.n THEN "true"
                  ELSE "false"
             [] v.op = "equalRef" ->
                  IF ref.thrown THEN "throw"
                  ELSE IF value = ref.value THEN "true" ELSE "false"
  IN Out(r, IF r = "error" THEN <<"Error", v.id>>
            ELSE IF r = "throw" THEN <<"TypeError", v.id>>
            ELSE IF r = "promise" THEN <<"Promise", v.gives>> ELSE <<>>,
         <<Call(v, value)>>)

RECURSIVE Apply(_, _, _)

\* Mutant of AndFrom: a false or an Error is kept until every validator was called.
RECURSIVE AndToTheEnd(_, _, _, _)
AndToTheEnd(subs, i, value, calls) ==
  IF i > Len(subs) THEN Out("true", <<>>, calls)
  ELSE LET o == Apply(subs[i], value, Undef)
           rest == AndToTheEnd(subs, i + 1, value, calls \o o.calls)
       IN IF o.r \in {"false", "error", "throw"} THEN Out(o.r, o.msg, rest.calls)
          ELSE rest

\* and (core.ts 228-245): the loop from the i-th validator, each called with the
\* value alone.
RECURSIVE AndFrom(_, _, _, _)
AndFrom(subs, i, value, calls) ==
  IF i > Len(subs) THEN Out("true", <<>>, calls)
  ELSE LET o == Apply(subs[i], value, Undef)
       IN IF o.r \in {"false", "error", "throw"} THEN Out(o.r, o.msg, calls \o o.calls)
          ELSE AndFrom(subs, i + 1, value, calls \o o.calls)

\* Mutant of OrFrom: the loop ends at the first true.
RECURSIVE OrUntilTrue(_, _, _, _, _)
OrUntilTrue(subs, i, value, calls, orCheck) ==
  IF i > Len(subs) \/ orCheck THEN Out(IF orCheck THEN "true" ELSE "false", <<>>, calls)
  ELSE LET o == Apply(subs[i], value, Undef)
       IN IF o.r = "throw" THEN Out(o.r, o.msg, calls \o o.calls)
          ELSE OrUntilTrue(subs, i + 1, value, calls \o o.calls, orCheck \/ o.r = "true")

\* or (core.ts 204-222): orCheck || (typeof result === 'boolean' ? result : false)
RECURSIVE OrFrom(_, _, _, _, _)
OrFrom(subs, i, value, calls, orCheck) ==
  IF i > Len(subs) THEN Out(IF orCheck THEN "true" ELSE "false", <<>>, calls)
  ELSE LET o == Apply(subs[i], value, Undef)
       IN IF o.r = "throw" THEN Out(o.r, o.msg, calls \o o.calls)
          ELSE OrFrom(subs, i + 1, value, calls \o o.calls, orCheck \/ o.r = "true")

\* sub (core.ts 182-198): the loop over the keys of the definition from the i-th;
\* the result of a key's validator is tested with !, which only false and
\* undefined satisfy.
RECURSIVE SubFrom(_, _, _, _)
SubFrom(v, i, value, calls) ==
  IF i > Len(v.keys) THEN Out("true", <<>>, calls)
  ELSE IF Shadowed(value) THEN Out("throw", <<"TypeError", 0>>, calls)
  ELSE IF ~Has(value, v.keys[i]) THEN Out("false", <<>>, calls)
  ELSE LET o == Apply(v.subs[i], Get(value, v.keys[i]), Undef)
       IN IF o.r = "throw" THEN Out(o.r, o.msg, calls \o o.calls)
          ELSE IF o.r \in {"false", "undefined"} THEN Out("false", <<>>, calls \o o.calls)
          ELSE SubFrom(v, i + 1, value, calls \o o.calls)

\* type.Array (core.ts 98-107): the loop over the items from the i-th.
RECURSIVE ItemsFrom(_, _, _, _)
ItemsFrom(validator, i, value, calls) ==
  IF i > value.n THEN Out("true", <<>>, calls)
  ELSE LET o == Apply(validator, value.f[i], Undef)
       IN IF o.r \in {"false", "error", "throw"} THEN Out(o.r, o.msg, calls \o o.calls)
          ELSE ItemsFrom(validator, i + 1, value, calls \o o.calls)

\* Inside namespace type (core.ts 69-136) the name Array is the function
\* type.Array declared at line 92, not the constructor of arrays.
ArrayOfNamespace == "type.Array"
\* value.constructor, for a value that has one
Constructor(value) ==
  CASE value.t = "arr" -> "Array"
    [] value.t = "obj" -> "Object"
    [] value.t = "str" -> "String"
    [] value.t = "num" -> "Number"
    [] OTHER -> "Boolean"
\* ! value
Falsy(value) ==
  \/ value.t \in {"undef", "null", "absent"}
  \/ value.t \in {"num", "str", "bool"} /\ value.n = 0
\* typeof value
TypeOf(value) ==
  CASE value.t \in {"arr", "obj", "null"} -> "object"
    [] value.t = "str" -> "string"
    [] value.t = "num" -> "number"
    [] value.t = "bool" -> "boolean"
    [] OTHER -> "undefined"

\* type.Array (core.ts 92-120)
ApplyArray(v, value) ==
  LET items == IF v.subs[1].op = "none" THEN Out("true", <<>>, <<>>)
               ELSE ItemsFrom(v.subs[1], 1, value, <<>>)
      whole == Apply(v.subs[2], value, Undef)
  IN IF Falsy(value) \/ TypeOf(value) # "object" \/ Constructor(value) # ArrayOfNamespace
     THEN Out("false", <<>>, <<>>)
     ELSE IF items.r # "true" THEN items
     ELSE IF v.subs[2].op = "none" THEN items
     ELSE Out(whole.r, whole.msg, items.calls \o whole.calls)

\* not (core.ts 251-261): result !== true
ApplyNot(v, value) ==
  LET o == Apply(v.subs[1], value, Undef)
  IN IF o.r = "throw" THEN o
     ELSE Out(IF o.r = "true" THEN "false" ELSE "true", <<>>, o.calls)

\* opt (core.ts 267-275): value === undefined ? true : validator(value)
ApplyOpt(v, value) ==
  IF value.t = "undef" THEN Out("true", <<>>, <<>>) ELSE Apply(v.subs[1], value, Undef)

\* validator(value, rawValues)
Apply(v, value, rawValues) ==
  CASE v.op = "and" -> AndFrom(v.subs, 1, value, <<>>)
    [] v.op = "or" -> OrFrom(v.subs, 1, value, <<>>, FALSE)
    [] v.op = "sub" ->
         IF ~PlainObject(value) THEN Out("false", <<>>, <<>>) ELSE SubFrom(v, 1, value, <<>>)
    [] v.op = "type.Array" -> ApplyArray(v, value)
    [] v.op = "not" -> ApplyNot(v, value)
    [] v.op = "opt" -> ApplyOpt(v, value)
    [] OTHER -> ApplyLeaf(v, value, rawValues)

\* ----------------------------------------------- calls of validator functions
\* client_secret: and(type.string, len.min(8)) in sample.router.ts
MinLength == 8

\* What the validators of the application give.
StubGives == {"true", "false", "error", "undefined"}
ThreeStubs == { <<Stub(1, a), Stub(2, b), Stub(3, c)>> : a, b, c \in StubGives }
Case(v, value, rawValues) == [v |-> v, value |-> value, raw |-> rawValues]

AndCases ==
  { Case(And(subs), Num(1), Undef) : subs \in ThreeStubs }
  \cup { Case(And(<<TypeString(1), LenGte(2, MinLength)>>), value, Undef) :
           value \in {StrN(MinLength - 2), StrN(MinLength), Num(MinLength), Undef} }
OrCases == { Case(Or(subs), Num(1), Undef) : subs \in ThreeStubs }
SubCases ==
  { Case(Sub(<<"a", "n">>, <<Stub(1, a), Stub(2, b)>>), value, Undef) :
      a \in StubGives, b \in StubGives,
      value \in {Undef, Null, Num(1), Arr, Obj0, Obj1("a", Num(1)), Obj1("n", Num(1)),
                 Obj3("a", Num(1), "n", Undef, "n", Undef),
                 Obj3("a", Num(1), "n", Num(1), "hasOwnProperty", Num(1))} }
Arrays == UNION { [1..k -> {Num(1), Str}] : k \in 0..MaxItems }
ArrayCases ==
  { Case(TypeArray(validator, arrayValidator), value, Undef) :
      validator \in {NoValidator, TypeNumber(1), IsNumber(1)},
      arrayValidator \in {NoValidator, LenGte(2, 2), Stub(2, "false"), Stub(2, "error")},
      value \in {Undef, Null, Num(1), Str, Obj0} \cup {ArrOf(items) : items \in Arrays} }
RefCases ==
  { Case(EqualRef(1, ref), value, tree) :
      ref \in {<<"a">>, <<"a", "b">>, <<"x", "b">>, <<"a", "b", "c">>},
      value \in {Undef, Null, Num(1), Num(2), Str},
      tree \in {Undef, Obj0, Obj1("a", Num(1)), Obj1("a", Null), Obj1("a", Undef),
                Obj1("a", Str), Obj1("a", Obj1("b", Num(1))), Obj1("a", Obj1("b", Null)),
                Obj1("a", Obj1("b", Obj1("c", Num(2))))} }
NumCases ==
  { Case(v, value, Undef) :
      v \in {NumGte(1, 0), NumGte(1, 1), NumLte(1, 0), NumLte(1, 1)},
      value \in {Undef, Null, BoolV(TRUE), BoolV(FALSE), StrN(0), Str, NumStr(1),
                 Num(0), Num(1), Num(2)} }
LenCases ==
  { Case(v, value, Undef) :
      v \in {LenGte(1, 0), LenGte(1, 1), LenLte(1, 0), LenLte(1, 1)},
      value \in {Undef, Null, Num(1), BoolV(TRUE), StrN(0), Str, Arr, Obj0} }
\* A reference validator alone and wrapped in a combinator.
WrapCases ==
  { Case(v, value, tree) :
      v \in {EqualRef(1, <<"a">>), And(<<EqualRef(1, <<"a">>)>>),
             Or(<<EqualRef(1, <<"a">>)>>), Not(EqualRef(1, <<"a">>)),
             Opt(EqualRef(1, <<"a">>))},
      value \in {Undef, Num(1), Num(2)},
      tree \in {Obj0, Obj1("a", Num(1))} }
\* A combinator around a validator that is synchronous or asynchronous.
AsyncCases ==
  { Case(v, Num(1), Undef) :
      v \in UNION { {And(<<Stub(1, g)>>), Or(<<Stub(1, g)>>), Not(Stub(1, g)),
                     Opt(Stub(1, g))} : g \in {"true", "false"} \cup Resolutions } }
Cases ==
  AndCases \cup OrCases \cup SubCases \cup ArrayCases \cup RefCases \cup NumCases
  \cup LenCases \cup WrapCases \cup AsyncCases

NoCall == [st |-> "none", v |-> NoValidator, value |-> Undef, raw |-> Undef,
           out |-> Out("", <<>>, <<>>)]
NewCall(case) ==
  [NoCall EXCEPT !.st = "called", !.v = case.v, !.value = case.value, !.raw = case.raw]

\* The validator returns or throws.
ValidatorReturns ==
  /\ ev.st = "called"
  /\ ev' = [ev EXCEPT !.st = "returned", !.out = Apply(ev.v, ev.value, ev.raw)]
  /\ UNCHANGED <<bootVars, rq, lw>>

\* -------------------------------------------------------------- log writer
\* The log files of the model: the file of an earlier day, which is older than
\* config.logFileMaxAge, and the file of the current day.
OldFile == "old.log"
TodayFile == "today.log"

\* new LogWriter(config, onError, onMessage) with logFileMaxAge > 0 (core.ts
\* 793-811): the fields, the .logs directory with the old file in it, scanned
\* once by activateDiskManagement. Logs are numbered in the order of the calls.
\*   queue, writing, logFiles: the fields;  archiveLogs: config.archiveLogs
\*   appends: the calls of fs.appendFile whose loop has not gone on yet
\*   disk: the logs appended;  reported: the logs onError was called for
\*   files: the log files in .logs;  started, running: the archive or delete
\*   operations started for the old file, and those still in progress
NewLogWriter(archiveLogs) ==
  [queue |-> <<>>, writing |-> FALSE, archiveLogs |-> archiveLogs,
   logFiles |-> {OldFile}, appends |-> <<>>, disk |-> <<>>, reported |-> <<>>,
   calls |-> 0, files |-> {OldFile}, started |-> 0, running |-> 0]

\* updateLogFiles (core.ts 816-843): this.logFiles = the log files in .logs
UpdateLogFiles(w) == [w EXCEPT !.logFiles = w.files]

\* appendLog (941-948): newFile is computed and fs.appendFile is called.
AppendLog(w, log) ==
  [w EXCEPT !.appends =
     Append(@, [log |-> log, st |-> "pending",
                newFile |-> TodayFile \notin w.logFiles /\ w.archiveLogs])]

\* Lines 981-1002 from the test of the while up to the await or the end.
RunQueue(w) ==
  IF w.queue = <<>> THEN [w EXCEPT !.writing = FALSE]
  ELSE AppendLog([w EXCEPT !.queue = Tail(@)], Head(w.queue))

\* Mutant of WriteToDisk: the queue is run whether or not it is being written.
WriteToDiskAlways ==
  /\ lw.calls < MaxLogs
  /\ lw' = RunQueue([lw EXCEPT !.queue = Append(@, lw.calls + 1),
                               !.calls = @ + 1, !.writing = TRUE])
  /\ UNCHANGED <<bootVars, rq, ev>>

\* writeToDisk (968-987) up to its return or its first await.
WriteToDisk ==
  /\ lw.calls < MaxLogs
  /\ LET pushed == [lw EXCEPT !.queue = Append(@, lw.calls + 1), !.calls = @ + 1]
     IN lw' = IF lw.writing THEN pushed
              ELSE RunQueue([pushed EXCEPT !.writing = TRUE])
  /\ UNCHANGED <<bootVars, rq, ev>>

Without(seq, i) == SubSeq(seq, 1, i - 1) \o SubSeq(seq, i + 1, Len(seq))

\* The callback of fs.appendFile (948-956), with or without an error: the
\* directory is scanned again if the file was new, the promise is settled.
AppendCompletes ==
  \E i \in 1..Len(lw.appends), ok \in BOOLEAN :
    /\ lw.appends[i].st = "pending"
    /\ LET written == [lw EXCEPT !.disk = IF ok THEN Append(@, lw.appends[i].log) ELSE @,
                                 !.files = IF ok THEN @ \cup {TodayFile} ELSE @,
                                 !.appends[i].st = IF ok THEN "ok" ELSE "failed"]
       IN lw' = IF lw.appends[i].newFile THEN UpdateLogFiles(written) ELSE written
    /\ UNCHANGED <<bootVars, rq, ev>>

\* Mutant of LoopResumes: the rejection is not caught, the loop ends there.
LoopEndsOnError ==
  \E i \in 1..Len(lw.appends) :
    /\ lw.appends[i].st \in {"ok", "failed"}
    /\ LET resumed == [lw EXCEPT !.appends = Without(@, i)]
       IN lw' = IF lw.appends[i].st = "failed" THEN resumed ELSE RunQueue(resumed)
    /\ UNCHANGED <<bootVars, rq, ev>>

\* The await of line 987 is over: the catch of 993-998 if the append failed,
\* then the loop goes on.
LoopResumes ==
  \E i \in 1..Len(lw.appends) :
    /\ lw.appends[i].st \in {"ok", "failed"}
    /\ LET resumed == [lw EXCEPT !.appends = Without(@, i),
                                 !.reported = IF lw.appends[i].st = "failed"
                                              THEN Append(@, lw.appends[i].log) ELSE @]
       IN lw' = RunQueue(resumed)
    /\ UNCHANGED <<bootVars, rq, ev>>

\* The callback of setInterval (860-907) when the old file is in logFiles: it
\* is taken out of logFiles and its archiving or deletion is started.
Tick ==
  /\ OldFile \in lw.logFiles
  /\ lw.started < MaxOps
  /\ lw' = [lw EXCEPT !.logFiles = @ \ {OldFile}, !.started = @ + 1, !.running = @ + 1]
  /\ UNCHANGED <<bootVars, rq, ev>>

\* archiveLogs (915-934) or fs.remove (892) ends, having removed the old file
\* or having failed.
DiskOperationEnds ==
  /\ lw.running > 0
  /\ \E ok \in BOOLEAN :
       lw' = [lw EXCEPT !.running = @ - 1, !.files = IF ok THEN @ \ {OldFile} ELSE @]
  /\ UNCHANGED <<bootVars, rq, ev>>

\* ----------------------------------------------------------- specification
Init ==
  /\ pc = "install"
  /\ services = <<>>
  /\ routers = <<>>
  /\ config \in Configs
  /\ table = <<>>
  /\ mountIdx = 0
  /\ predictive404Installed = FALSE
  /\ lc = [set |-> "services", idx |-> 1, phase |-> 1, arg |-> NoArg]
  /\ events = <<>>
  /\ errors = <<>>
  /\ listening = FALSE
  /\ launched = FALSE
  /\ served = 0
  /\ discovered = <<>>
  /\ resp = NoAnswer
  /\ constructed = NoneConstructed
  /\ rq = NoRequest
  /\ ev = NoCall
  /\ lw = NewLogWriter(FALSE)

Next ==
  \/ InstallModule
  \/ InstallMiddleware
  \/ MountRouter
  \/ FinishInstall
  \/ EnterPhase
  \/ HookEdits
  \/ SkipPhase
  \/ HookResolves
  \/ HookRejects
  \/ ServicesDone
  \/ RoutersDone
  \/ StartServer
  \/ ListenCallback
  \/ ServeRequest

Spec == Init /\ [][Next]_vars

\* A request to a route with validation rules, in the validation middleware.
InitReq ==
  /\ pc = "serving"
  /\ services = <<>>
  /\ routers = <<>>
  /\ config = [predictive404 |-> FALSE, predictive404Priority |-> PInfinity]
  /\ table = <<>>
  /\ mountIdx = 0
  /\ predictive404Installed = FALSE
  /\ lc = [set |-> "routers", idx |-> 1, phase |-> 1, arg |-> NoArg]
  /\ events = <<>>
  /\ errors = <<>>
  /\ listening = TRUE
  /\ launched = TRUE
  /\ served = MaxServed
  /\ discovered = <<>>
  /\ resp = NoAnswer
  /\ constructed = NoneConstructed
  /\ rq \in {NewRequest(route, req) : route \in Routes, req \in Requests}
  /\ ev = NoCall
  /\ lw = NewLogWriter(FALSE)

NextReq ==
  \/ BeginValidation
  \/ ValidatorResolves
  \/ Deliver

SpecReq == InitReq /\ [][NextReq]_vars

\* A validator function is called with a value and the raw values.
InitFn ==
  /\ pc = "serving"
  /\ services = <<>>
  /\ routers = <<>>
  /\ config = [predictive404 |-> FALSE, predictive404Priority |-> PInfinity]
  /\ table = <<>>
  /\ mountIdx = 0
  /\ predictive404Installed = FALSE
  /\ lc = [set |-> "routers", idx |-> 1, phase |-> 1, arg |-> NoArg]
  /\ events = <<>>
  /\ errors = <<>>
  /\ listening = TRUE
  /\ launched = TRUE
  /\ served = MaxServed
  /\ discovered = <<>>
  /\ resp = NoAnswer
  /\ constructed = NoneConstructed
  /\ rq = NoRequest
  /\ ev \in {NewCall(case) : case \in Cases}
  /\ lw = NewLogWriter(FALSE)

NextFn == ValidatorReturns

SpecFn == InitFn /\ [][NextFn]_vars

\* The log writer of a running server, with archiving or with deletion of the
\* old log files.
InitLog ==
  /\ pc = "serving"
  /\ services = <<>>
  /\ routers = <<>>
  /\ config = [predictive404 |-> FALSE, predictive404Priority |-> PInfinity]
  /\ table = <<>>
  /\ mountIdx = 0
  /\ predictive404Installed = FALSE
  /\ lc = [set |-> "routers", idx |-> 1, phase |-> 1, arg |-> NoArg]
  /\ events = <<>>
  /\ errors = <<>>
  /\ listening = TRUE
  /\ launched = TRUE
  /\ served = MaxServed
  /\ discovered = <<>>
  /\ resp = NoAnswer
  /\ constructed = NoneConstructed
  /\ rq = NoRequest
  /\ ev = NoCall
  /\ lw \in {NewLogWriter(archiveLogs) : archiveLogs \in BOOLEAN}

NextLog ==
  \/ WriteToDisk
  \/ AppendCompletes
  \/ LoopResumes
  \/ Tick
  \/ DiskOperationEnds

SpecLog == InitLog /\ [][NextLog]_vars

\* fs.appendFile calls its callback, and the continuation of an await whose
\* promise is settled runs.
SpecLogFair == SpecLog /\ WF_vars(AppendCompletes) /\ WF_vars(LoopResumes)

\* ------------------------------------------------------- lifecycle claims
EventIdx == 1..Len(events)
PhaseNo(phase) == [inject |-> 1, config |-> 2, init |-> 3][phase]
Registered == {services[i] : i \in 1..Len(services)} \cup {routers[i] : i \in 1..Len(routers)}
Owners == {<<m.kind, m.name>> : m \in Registered}
ModuleOf(owner) == CHOOSE m \in Registered : m.kind = owner[1] /\ m.name = owner[2]
EventsOf(owner, phase) ==
  SelectSeq(events, LAMBDA e : e.owner = owner /\ e.phase = phase)
IsPrefix(s, t) == Len(s) <= Len(t) /\ \A i \in 1..Len(s) : s[i] = t[i]
Shape(e) == <<e.type, e.scope, e.name, e.kind, e.edge>>
Returned(owner, phase) ==
  \E i \in EventIdx : /\ events[i].owner = owner /\ events[i].phase = phase
                      /\ events[i].type = "return"
Threw(kind) == \E i \in EventIdx : events[i].type = "throw" /\ events[i].kind = kind
\* Every phase the module implements has run to its last notification.
Completed(m) ==
  \A phase \in m.hooks :
    \E i \in EventIdx : /\ events[i].owner = <<m.kind, m.name>>
                        /\ Shape(events[i]) = <<"emit", "global", "", m.kind, "after">>
                        /\ events[i].phase = phase

\* C1: the notifications and hook calls of one module form one contiguous block of
\* the event sequence, and no router hook or router notification occurs before
\* every phase of every service has completed.
C1_ModulesNotInterleaved ==
  /\ \A i \in EventIdx :
       (i < Len(events) /\ events[i + 1].owner # events[i].owner)
         => \A k \in (i + 1)..Len(events) : events[k].owner # events[i].owner
  /\ \A i \in EventIdx :
       events[i].kind = "router"
         => /\ \A k \in i..Len(events) : events[k].kind = "router"
            /\ \A n \in 1..Len(services) : Completed(services[n])

\* Two services and a router, each with hooks, have run all their phases.
C1_Witness ==
  /\ pc = "start"
  /\ errors = <<>>
  /\ Len(services) = 2
  /\ Len(routers) = 1
  /\ \A m \in Registered : Cardinality(m.hooks) >= 2 /\ Completed(m)

\* C2: for a phase X that module M of kind K implements, what is emitted is, in
\* this order: K:X:before, M-K:X:before, the hook call and its return,
\* M-K:X:after, K:X:after; nothing else and nothing twice.
C2_PhaseEmissions ==
  \A o \in Owners : \A phase \in {"inject", "config", "init"} :
    LET seen == EventsOf(o, phase)
        want == << <<"emit", "global", "", o[1], "before">>,
                   <<"emit", "named", o[2], o[1], "before">>,
                   <<"call", "hook", o[2], o[1], "">>,
                   <<"return", "hook", o[2], o[1], "">>,
                   <<"emit", "named", o[2], o[1], "after">>,
                   <<"emit", "global", "", o[1], "after">> >>
    IN /\ Len(seen) <= 6
       /\ \A i \in 1..Len(seen) :
            \/ Shape(seen[i]) = want[i]
            \/ i = 4 /\ Shape(seen[i]) = <<"throw", "hook", o[2], o[1], "">>
       /\ Returned(o, phase) => Len(seen) = 6

\* A router and a service have each completed their init phase.
C2_Witness ==
  /\ \E o \in Owners : o[1] = "router" /\ Len(EventsOf(o, "init")) = 6
  /\ \E o \in Owners : o[1] = "service" /\ Len(EventsOf(o, "init")) = 6

\* C3: within one module the phases run in the order inject, config, init, a
\* hook having returned before the first notification of a later phase; a phase
\* whose hook the module does not implement leaves no event at all.
C3_PhaseOrderAndSkip ==
  /\ \A i \in EventIdx : \A j \in (i + 1)..Len(events) :
       events[i].owner = events[j].owner
         => PhaseNo(events[i].phase) <= PhaseNo(events[j].phase)
  /\ \A m \in Registered : \A j \in EventIdx :
       events[j].owner = <<m.kind, m.name>>
         => /\ events[j].phase \in m.hooks
            /\ \A earlier \in m.hooks :
                 PhaseNo(earlier) < PhaseNo(events[j].phase)
                   => \E i \in 1..(j - 1) : /\ events[i].owner = events[j].owner
                                            /\ events[i].phase = earlier
                                            /\ events[i].type = "return"

\* A module without the config hook has completed inject and init, and a module
\* with all three hooks has completed them.
C3_Witness ==
  /\ \E m \in Registered : m.hooks = {"inject", "init"} /\ Completed(m)
  /\ \E m \in Registered : m.hooks = {"inject", "config", "init"} /\ Completed(m)

\* C4: once a hook of a service has thrown or rejected, the throw is the last
\* event there is (no after notification of that phase, no later phase, no later
\* service, no router), and the error was reported once on the error channel.
C4_ServiceFailureAborts ==
  Threw("service") =>
    /\ events[Len(events)].type = "throw"
    /\ events[Len(events)].kind = "service"
    /\ Len(SelectSeq(errors, LAMBDA e : e = "lifecycle")) = 1

\* The first of two services failed in its first phase, a router with hooks is
\* registered, and the chain has run to its end.
C4_Witness ==
  /\ Threw("service")
  /\ pc \in {"serving", "down"}
  /\ Len(services) = 2
  /\ services[1].hooks # {} /\ services[2].hooks # {}
  /\ events[Len(events)].owner = <<"service", services[1].name>>
  /\ events[Len(events)].phase = "inject"
  /\ \E n \in 1..Len(routers) : routers[n].hooks # {}

\* C5: in a run in which a lifecycle hook throws or rejects, the server never
\* begins listening.
C5_FailureIsFatal == (Threw("service") \/ Threw("router")) => ~listening

\* C6 as stated: a router registered earlier has all its lifecycle events before
\* those of a router registered later, whatever their priorities.
Position(reg, name) == CHOOSE n \in 1..Len(reg) : reg[n].name = name
RunsBefore(r1, r2) ==
  \/ r1.priority > r2.priority
  \/ /\ r1.priority = r2.priority
     /\ Position(discovered, r1.name) < Position(discovered, r2.name)

C6_WitnessTie ==
  /\ Len(discovered) = 2
  /\ discovered[1].priority = discovered[2].priority
  /\ \A n \in 1..2 : discovered[n].hooks # {} /\ Completed(discovered[n])

\* C7: the server listens only once the route table is complete (its last layer
\* is the error handler) and the lifecycle run has ended (no hook is pending, and
\* either a hook failed or every module completed); and no step that leaves the
\* server listening adds a layer to the table or writes a registry.
Pending ==
  \E i \in EventIdx :
    /\ events[i].type = "call"
    /\ \A j \in EventIdx :
         ~(/\ j > i /\ events[j].owner = events[i].owner
           /\ events[j].phase = events[i].phase /\ events[j].type \in {"return", "throw"})
TableComplete == table # <<>> /\ table[Len(table)].kind = "errorHandler"
LifecycleEnded ==
  /\ ~Pending
  /\ Threw("service") \/ Threw("router") \/ \A m \in Registered : Completed(m)

C7_WriteOnceBeforeServing ==
  /\ [](listening => TableComplete /\ LifecycleEnded)
  /\ [][listening' => UNCHANGED <<table, services, routers>>]_bootVars

\* The server accepts connections and has served a request over a table with a
\* mounted route, after a lifecycle run in which hooks were called.
C7_Witness ==
  /\ launched
  /\ served >= 1
  /\ \E n \in 1..Len(table) : table[n].kind = "route"
  /\ events # <<>>

\* ------------------------------------------------------ validation claims
CallIdx == 1..Len(rq.calls)
Invoked(i) == rq.calls[i].op = "invoke"
FailedCall(i) == rq.calls[i].op = "resolve" /\ rq.calls[i].r \in {"false", "error"}
ThrewCall(i) == rq.calls[i].op = "resolve" /\ rq.calls[i].r \in Throws

\* The reason of a failed call: the validator's own Error, or the Invalid message
\* of its rule.
Reason(call) ==
  LET rule == rq.route[call.pos[1]]
  IN IF call.r = "error" THEN Err(ResultAt(rq.route, rq.req, call.pos).msg, "", <<>>)
     ELSE IF rule.type = "custom" THEN Err("Invalid request!", "", <<>>)
     ELSE Err("Invalid", TypeName(rule), KeyPath(rule.def, Tail(call.pos)))

\* A Body rule is reached with a body that is no plain object, every validator
\* before it having accepted.
BodyTypeFails(i) ==
  /\ rq.route[i].type = "body"
  /\ ~PlainObject(rq.req.body)
  /\ \A c \in CallIdx : ~FailedCall(c) /\ ~ThrewCall(c)

\* C8: once the evaluation of a rule fails (a validator gives false or an Error,
\* or the body of a Body rule is no plain object), no validator of a later field
\* or a later rule is invoked, the handler is not called, and the response is
\* HTTP 400 with code VALIDATION_FAILED and the failure reason as message.
C8_FirstFailureRejects ==
  /\ \A i \in CallIdx : FailedCall(i) =>
       /\ \A j \in CallIdx : j > i => ~Invoked(j)
       /\ rq.st = "done" =>
            /\ rq.res = Response(400, "VALIDATION_FAILED", Reason(rq.calls[i]))
            /\ rq.nexts = 0
            /\ rq.sent = 1
  /\ \A i \in 1..Len(rq.route) : (rq.st = "done" /\ BodyTypeFails(i)) =>
       /\ \A j \in CallIdx : rq.calls[j].pos[1] < i
       /\ rq.res = Response(400, "VALIDATION_FAILED", Err("Invalid body type!", "", <<>>))
       /\ rq.nexts = 0
       /\ rq.sent = 1

\* A rule that is not the last fails after an earlier validator accepted, and the
\* response is sent.
C8_Witness ==
  /\ rq.st = "done"
  /\ \E i \in CallIdx :
       /\ FailedCall(i)
       /\ rq.calls[i].r = "false"
       /\ rq.calls[i].pos[1] < Len(rq.route)
       /\ \E j \in 1..(i - 1) : rq.calls[j].op = "resolve" /\ rq.calls[j].r = "true"

RECURSIVE LexLess(_, _)
LexLess(p, q) ==
  IF q = <<>> THEN FALSE
  ELSE IF p = <<>> THEN TRUE
  ELSE Head(p) < Head(q) \/ (Head(p) = Head(q) /\ LexLess(Tail(p), Tail(q)))

\* C9: at most one validator invocation of the request is in flight; a validator
\* is invoked only when the one invoked before it has resolved; and validators
\* are invoked in rule order and, within a rule, in key order.
C9_OneValidatorAtATime ==
  /\ Cardinality(rq.pending) <= 1
  /\ \A i \in CallIdx : (Invoked(i) /\ i > 1) => rq.calls[i - 1].op = "resolve"
  /\ \A i, j \in CallIdx : (i < j /\ Invoked(i) /\ Invoked(j)) =>
       LexLess(rq.calls[i].pos, rq.calls[j].pos)
  /\ \A i \in CallIdx : rq.calls[i].op = "resolve" =>
       i > 1 /\ Invoked(i - 1) /\ rq.calls[i - 1].pos = rq.calls[i].pos

\* Two validators of one rule and a validator of a later rule have been invoked,
\* and the last of them is in flight.
C9_Witness ==
  /\ Cardinality(rq.pending) = 1
  /\ \E i, j, k \in CallIdx :
       /\ i < j /\ j < k
       /\ Invoked(i) /\ Invoked(j) /\ Invoked(k)
       /\ rq.calls[i].pos[1] = rq.calls[j].pos[1]
       /\ rq.calls[j].pos[1] < rq.calls[k].pos[1]
       /\ rq.calls[k].pos \in rq.pending

\* Every validator of a definition, at every depth, accepts the value it is for.
RECURSIVE Accepts(_, _)
Accepts(def, values) ==
  \A i \in 1..Len(def) :
    IF def[i].fn # ""
    THEN Validate(def[i].fn, Get(values, def[i].key), rq.req.body).r = "true"
    ELSE /\ PlainObject(Get(values, def[i].key))
         /\ Accepts(def[i].sub, Get(values, def[i].key))

\* The nested definitions of the Body rules of the request's route, each with its key.
NestedOfBody ==
  UNION { { rq.route[i].def[e] : e \in {x \in 1..Len(rq.route[i].def) :
                                          rq.route[i].def[x].fn = ""} } :
          i \in {r \in 1..Len(rq.route) : rq.route[r].type = "body"} }

\* C10: for a Body rule with a nested definition under key k, the request is
\* accepted only if body[k] is a plain object and every validator of the nested
\* definition, at every depth, accepts its value; otherwise, no validator having
\* thrown, the request is rejected with HTTP 400.
C10_NestedBodyValidated ==
  \A node \in NestedOfBody :
    LET ok == /\ PlainObject(Get(rq.req.body, node.key))
              /\ Accepts(node.sub, Get(rq.req.body, node.key))
    IN rq.st = "done" =>
         /\ rq.nexts = 1 => ok
         /\ (~ok /\ \A c \in CallIdx : ~ThrewCall(c)) => rq.res.status = 400

\* The first failure of a body definition against a value, in depth-first key
\* order from its i-th key, with the full path of its keys; NoErr when there is none.
RECURSIVE FirstBodyFailure(_, _, _, _)
FirstBodyFailure(def, values, prefix, i) ==
  IF i > Len(def) THEN NoErr
  ELSE
    LET v == Get(values, def[i].key)
        path == prefix \o <<def[i].key>>
        result == Validate(def[i].fn, v, rq.req.body)
        inner == FirstBodyFailure(def[i].sub, v, path, 1)
    IN IF def[i].fn # ""
       THEN CASE result.r = "false" -> Err("Invalid", "body property", path)
              [] result.r = "error" -> Err(result.msg, "", <<>>)
              [] result.r \in Throws -> Err("TypeError", "", <<>>)
              [] OTHER -> FirstBodyFailure(def, values, prefix, i + 1)
       ELSE IF ~PlainObject(v) THEN Err("Invalid", "body property", path)
       ELSE IF inner # NoErr THEN inner
       ELSE FirstBodyFailure(def, values, prefix, i + 1)

\* C11: when the first failure of a Body rule is a validator giving false at
\* parent.child, or a nested definition whose value is no plain object, the
\* response is 400 with "Invalid body property '<full dotted path>'!".
C11_FullDottedPath ==
  \A i \in 1..Len(rq.route) :
    LET failure == FirstBodyFailure(rq.route[i].def, rq.req.body, <<>>, 1)
    IN ( /\ rq.st = "done"
         /\ rq.route[i].type = "body"
         /\ PlainObject(rq.req.body)
         /\ \A c \in CallIdx : rq.calls[c].pos[1] < i => rq.calls[c].r \in {"", "true"}
         /\ failure.type = "body property" )
       => rq.res = Response(400, "VALIDATION_FAILED", failure)

\* The header map or the query map of the request, for calls of Header and Query rules.
IsMapCall(i) == rq.route[rq.calls[i].pos[1]].type \in {"header", "query"}
MapOf(i) ==
  IF rq.route[rq.calls[i].pos[1]].type = "header" THEN rq.req.headers ELSE rq.req.query
KeyOf(i) == rq.route[rq.calls[i].pos[1]].def[rq.calls[i].pos[2]].key

\* C12: the validator of a key of a Header or Query rule is called with
\* (map[key], map); when it gives false the request is rejected with
\* "Invalid header '<key>'!" or "Invalid query '<key>'!", and when it gives an
\* Error, with that Error's message.
C12_HeaderQueryRule ==
  \A i \in CallIdx : IsMapCall(i) =>
    /\ Len(rq.calls[i].pos) = 2
    /\ rq.calls[i].args = <<Get(MapOf(i), KeyOf(i)), MapOf(i)>>
    /\ (rq.st = "done" /\ rq.calls[i].r = "false") =>
         rq.res = Response(400, "VALIDATION_FAILED",
                           Err("Invalid", rq.route[rq.calls[i].pos[1]].type, <<KeyOf(i)>>))
    /\ (rq.st = "done" /\ rq.calls[i].r = "error") =>
         rq.res = Response(400, "VALIDATION_FAILED",
                           Err(Validate(rq.route[rq.calls[i].pos[1]].def[rq.calls[i].pos[2]].fn,
                                        Get(MapOf(i), KeyOf(i)), MapOf(i)).msg, "", <<>>))

\* A header validator that reads the map through its second argument has given
\* false and the rejection is sent.
C12_Witness ==
  /\ rq.st = "done"
  /\ \E i \in CallIdx :
       /\ IsMapCall(i)
       /\ rq.calls[i].r = "false"
       /\ rq.route[rq.calls[i].pos[1]].def[rq.calls[i].pos[2]].fn = "equalRef.h"

\* A query validator has given an Error and the rejection is sent.
C12_WitnessError ==
  /\ rq.st = "done"
  /\ \E i \in CallIdx :
       /\ IsMapCall(i)
       /\ rq.calls[i].r = "error"
       /\ rq.res.message.text = "E_TEXT"

IsCustomCall(i) == rq.route[rq.calls[i].pos[1]].type = "custom"
\* Every rule before rule c has been passed: its validators accepted and, for a
\* Body rule, the body is a plain object.
PassedBefore(c) ==
  /\ \A i \in CallIdx : rq.calls[i].pos[1] < c => rq.calls[i].r \in {"", "true"}
  /\ \A b \in 1..(c - 1) : rq.route[b].type = "body" => PlainObject(rq.req.body)

\* C13: the predicate of a Custom rule is called with the whole request, at most
\* once, and exactly once when every rule before it has been passed; when it
\* gives false the response is 400 VALIDATION_FAILED 'Invalid request!', when it
\* gives an Error, 400 VALIDATION_FAILED with that Error's message, and in both
\* cases the handler is not called.
C13_CustomRule ==
  /\ \A i \in CallIdx : IsCustomCall(i) =>
       /\ rq.calls[i].args = <<rq.req>>
       /\ (rq.st = "done" /\ rq.calls[i].r = "false") =>
            /\ rq.res = Response(400, "VALIDATION_FAILED", Err("Invalid request!", "", <<>>))
            /\ rq.nexts = 0
       /\ (rq.st = "done" /\ rq.calls[i].r = "error") =>
            /\ rq.res = Response(400, "VALIDATION_FAILED",
                 Err(ValidateRequest(rq.route[rq.calls[i].pos[1]].def[1].fn, rq.req).msg,
                     "", <<>>))
            /\ rq.nexts = 0
  /\ \A c \in 1..Len(rq.route) : rq.route[c].type = "custom" =>
       LET invocations == {i \in CallIdx : Invoked(i) /\ rq.calls[i].pos[1] = c}
       IN /\ Cardinality(invocations) <= 1
          /\ (rq.st = "done" /\ PassedBefore(c)) => Cardinality(invocations) = 1

\* A Custom rule reached after two passed rules has given false, and the
\* rejection is sent.
C13_Witness ==
  /\ rq.st = "done"
  /\ \E i \in CallIdx : IsCustomCall(i) /\ rq.calls[i].r = "false" /\ rq.calls[i].pos[1] = 3

\* A Custom rule has given an Error, and the rejection is sent.
C13_WitnessError ==
  /\ rq.st = "done"
  /\ \E i \in CallIdx : IsCustomCall(i) /\ rq.calls[i].r = "error"
  /\ rq.res.message.text = "E_TOKEN"

\* C14: when a validator throws or its promise rejects, the request gets one
\* response, HTTP 500 with code VALIDATION_FAILED, the handler is not called and
\* no error leaves the middleware.
C14_ThrowGives500 ==
  \A i \in CallIdx : (rq.st = "done" /\ ThrewCall(i)) =>
    /\ rq.res.status = 500
    /\ rq.res.code = "VALIDATION_FAILED"
    /\ rq.sent = 1
    /\ rq.nexts = 0
    /\ rq.escaped = 0

\* ----------------------------------------------------- route table claims
\* The compilation of the table is over.
Compiled == pc \notin {"install", "mount"}
LayersOf(kind) == {i \in 1..Len(table) : table[i].kind = kind}
RouteLayers == LayersOf("route")
\* The priority of the router a route's layer was mounted for.
PriorityAt(i) ==
  (CHOOSE r \in {routers[n] : n \in 1..Len(routers)} : r.name = table[i].router).priority
Below(priority) == config.predictive404Priority > priority
SomeRouterBelow == \E n \in 1..Len(routers) : Below(routers[n].priority)

\* C15: with predictive 404 enabled the guard is never installed twice and is in
\* the compiled table exactly once; when some router is below the threshold, all
\* route layers before the guard are of routers at or above the threshold, all
\* route layers after it are of routers below it, and the guard comes before the
\* routes of every router below the threshold.
C15_GuardOnceBeforeFirstBelow ==
  config.predictive404 =>
    /\ Cardinality(LayersOf("predictive404")) <= 1
    /\ Compiled => Cardinality(LayersOf("predictive404")) = 1
    /\ (Compiled /\ SomeRouterBelow) =>
         \A g \in LayersOf("predictive404") : \A i \in RouteLayers :
           /\ i < g => ~Below(PriorityAt(i))
           /\ i > g => Below(PriorityAt(i))

\* The compiled table has the routes of a router above the threshold, then the
\* guard, then the routes of a router below the threshold.
C15_Witness ==
  /\ Compiled
  /\ config.predictive404
  /\ \E g \in LayersOf("predictive404") : \E i, j \in RouteLayers :
       /\ i < g /\ g < j
       /\ j = g + 1
       /\ ~Below(PriorityAt(i))
       /\ Below(PriorityAt(j))

\* Two routers below the threshold have routes in the compiled table.
C15_WitnessTwoBelow ==
  /\ Compiled
  /\ config.predictive404
  /\ \E i, j \in RouteLayers :
       /\ table[i].router # table[j].router
       /\ Below(PriorityAt(i))
       /\ Below(PriorityAt(j))
       /\ config.predictive404Priority = 1

\* C16: the compiled table has exactly one of the guard and the static 404
\* handler. With predictive 404 disabled it is the static handler, after all
\* routes; with predictive 404 enabled and no router below the threshold it is
\* the guard, after the routes of the last router.
C16_Exactly404Handler ==
  Compiled =>
    /\ Cardinality(LayersOf("predictive404")) + Cardinality(LayersOf("static404")) = 1
    /\ ~config.predictive404 =>
         /\ LayersOf("predictive404") = {}
         /\ \A s \in LayersOf("static404") : \A i \in RouteLayers : i < s
    /\ (config.predictive404 /\ ~SomeRouterBelow) =>
         \A g \in LayersOf("predictive404") : \A i \in RouteLayers : i < g

\* Predictive 404 is enabled, no router is below the threshold, and the compiled
\* table has routes.
C16_Witness ==
  /\ Compiled
  /\ config.predictive404
  /\ ~SomeRouterBelow
  /\ RouteLayers # {}
  /\ LayersOf("predictive404") # {}

\* Predictive 404 is disabled and the compiled table has routes of two routers.
C16_WitnessStatic ==
  /\ Compiled
  /\ ~config.predictive404
  /\ \E i, j \in RouteLayers : table[i].router # table[j].router

\* C17 as stated: with predictive 404 enabled and the threshold +Infinity, the
\* guard comes after the routes of every router.
C17_GuardAtEnd ==
  (Compiled /\ config.predictive404 /\ config.predictive404Priority = PInfinity) =>
    \A g \in LayersOf("predictive404") : \A i \in RouteLayers : i < g

\* C17: with predictive 404 enabled and the threshold +Infinity, every router is
\* below the threshold: the guard is installed once, before the routes of every
\* router; it ends the table (before the error handler) only when no route is
\* mounted.
C17_GuardBeforeAllRoutes ==
  (Compiled /\ config.predictive404 /\ config.predictive404Priority = PInfinity) =>
    /\ Cardinality(LayersOf("predictive404")) = 1
    /\ \A g \in LayersOf("predictive404") : \A i \in RouteLayers : g < i

\* The threshold is +Infinity and the compiled table has the routes of two routers
\* of different priorities.
C17_Witness ==
  /\ Compiled
  /\ config.predictive404
  /\ config.predictive404Priority = PInfinity
  /\ \E i, j \in RouteLayers : PriorityAt(i) > PriorityAt(j)

\* A route of the compiled table has the path of the request.
PathMounted(req) == \E i \in RouteLayers : table[i].path = req.path
\* A route of the compiled table has the path and the method of the request.
RouteMounted(req) ==
  \E i \in RouteLayers : table[i].path = req.path /\ table[i].method = req.method

\* C18: over the compiled table, wherever it was installed, the guard answers 404
\* to a request if and only if no mounted route has the request's path, and lets
\* it pass otherwise.
C18_GuardVerdictByPath ==
  (Compiled /\ LayersOf("predictive404") # {}) =>
    \A req \in HttpRequests :
      GuardVerdict(OriginalUrl(req)) = "404" <=> ~PathMounted(req)

\* C19: a request served while no route of the table has its path and method is
\* answered with HTTP 404 and code ROUTE_NOT_FOUND, with predictive 404 enabled
\* or disabled.
C19_UnmatchedGets404 ==
  (served > 0 /\ ~RouteMounted(resp.req)) =>
    /\ resp.ans.status = 404
    /\ resp.ans.code = "ROUTE_NOT_FOUND"

\* C20: the error handler is the last layer of the compiled table, and a request
\* whose handler threw is answered by it with HTTP 500 and code UNKNOWN_ERROR,
\* after one report on the 'error' channel.
C20_ErrorHandlerAnswers ==
  /\ Compiled => (table # <<>> /\ LayersOf("errorHandler") = {Len(table)})
  /\ (served > 0 /\ RouteMounted(resp.req) /\ resp.req.throws /\ resp.ans.by # "predictive404") =>
       /\ resp.ans.status = 500
       /\ resp.ans.code = "UNKNOWN_ERROR"
       /\ resp.ans.reports = 1

\* --------------------------------------------------- route mounting claims
\* The mounted paths of a router, in table order.
RECURSIVE PathsFrom(_, _)
PathsFrom(name, i) ==
  IF i > Len(table) THEN <<>>
  ELSE (IF table[i].kind = "route" /\ table[i].router = name
        THEN <<table[i].path>> ELSE <<>>) \o PathsFrom(name, i + 1)
MountedPaths(name) == PathsFrom(name, 1)
PathsOf(routes) == [i \in 1..Len(routes) |-> routes[i].path]
InSeq(x, seq) == \E i \in 1..Len(seq) : seq[i] = x

\* The route names a method of the router's own class.
NamesOwnMethod(route) ==
  route.path # "" /\ route.handler \in PrototypeNames \cap RouterMethods

\* C21: no route whose handler is not a function of the router is mounted, and
\* of every router the routes that name a method of its class are all mounted,
\* in their declared order, whatever other routes the router or other routers
\* declare.
C21_BadRouteSkippedAlone ==
  Compiled =>
    \A n \in 1..Len(routers) :
      /\ \A r \in 1..Len(routers[n].routes) :
           routers[n].routes[r].handler \notin RouterMethods
             => ~InSeq(routers[n].routes[r].path, MountedPaths(routers[n].name))
      /\ MountedPaths(routers[n].name)
           = PathsOf(SelectSeq(routers[n].routes, NamesOwnMethod))

\* Two routers each have a route with a missing handler declared before routes
\* that are mounted.
C21_Witness ==
  /\ Compiled
  /\ Len(routers) = 2
  /\ \A n \in 1..2 :
       /\ routers[n].routes # <<>>
       /\ routers[n].routes[1].handler \notin RouterMethods
       /\ Len(MountedPaths(routers[n].name)) >= 2

\* C22: a route is mounted if and only if it has a path and a handler name and
\* the handler name is a function reachable on the router instance, defined by
\* its class, inherited, or assigned on the instance.
C22_MountedIffCallable ==
  Compiled =>
    \A n \in 1..Len(routers) : \A r \in 1..Len(routers[n].routes) :
      LET route == routers[n].routes[r]
      IN InSeq(route.path, MountedPaths(routers[n].name))
           <=> (route.path # "" /\ route.handler # "" /\ route.handler \in RouterMethods)

\* The route definition a route's layer was mounted for.
RouteAt(i) ==
  LET router == CHOOSE r \in {routers[n] : n \in 1..Len(routers)} : r.name = table[i].router
  IN CHOOSE route \in {router.routes[r] : r \in 1..Len(router.routes)} :
       route.path = table[i].path

\* C23: the chain of a mounted route is logger, validation, CORS, handler, with
\* the validation middleware present exactly when the route's list of rules is
\* not empty.
C23_ChainOrder ==
  \A i \in 1..Len(table) : table[i].kind = "route" =>
    table[i].chain =
      <<"logger">> \o (IF RouteAt(i).validate = "rules" THEN <<"validate">> ELSE <<>>)
                   \o <<"cors", "handler">>

\* C24: the route layers of the table are in descending priority of their
\* routers; routers of equal priority are in registry order; the layers of one
\* router are together and in the declared order of its routes.
C24_MountOrder ==
  /\ \A i, j \in 1..Len(table) :
       (i < j /\ table[i].kind = "route" /\ table[j].kind = "route"
              /\ table[i].router # table[j].router) =>
         LET r1 == discovered[Position(discovered, table[i].router)]
             r2 == discovered[Position(discovered, table[j].router)]
         IN RunsBefore(r1, r2)
  /\ \A n \in 1..Len(discovered) :
       MountedPaths(discovered[n].name)
         = SelectSeq(PathsOf(discovered[n].routes),
                     LAMBDA path : InSeq(path, MountedPaths(discovered[n].name)))

\* The table has the routes of two routers, the one registered first having the
\* lower priority, each with more than one route mounted.
C24_Witness ==
  /\ Compiled
  /\ Len(discovered) = 2
  /\ discovered[1].priority < discovered[2].priority
  /\ \A n \in 1..2 : Len(MountedPaths(discovered[n].name)) >= 2

\* The table has the routes of two routers of equal priority.
C24_WitnessTie ==
  /\ Compiled
  /\ Len(discovered) = 2
  /\ discovered[1].priority = discovered[2].priority
  /\ \A n \in 1..2 : Len(MountedPaths(discovered[n].name)) >= 2

\* ----------------------------------------------------------- discovery claim
NamesIn(reg) == {reg[i].name : i \in 1..Len(reg)}
Entry(reg, name) == reg[Position(reg, name)]
\* The registry after registry[m.name] = m: the name maps to m, every other
\* name to what it mapped to.
Remaps(reg, after, m) ==
  /\ NamesIn(after) = NamesIn(reg) \cup {m.name}
  /\ Len(after) = Cardinality(NamesIn(after))
  /\ Entry(after, m.name) = m
  /\ \A name \in NamesIn(reg) \ {m.name} : Entry(after, name) = Entry(reg, name)

\* C25: each step of the discovery leaves every registry mapping each name to
\* the candidate of its kind constructed last under that name: a service goes
\* to the services registry, a router to the routers registry, replacing the
\* entry of its name only; a candidate whose constructor throws, or without
\* metadata, changes neither registry, and the discovery goes on after it.
C25_LastConstructedWins ==
  [][(pc = "install" /\ pc' = "install") =>
       LET c == constructed'.last
       IN /\ c.kind = "service" => Remaps(services, services', c) /\ routers' = routers
          /\ c.kind = "router" => Remaps(routers, routers', c) /\ services' = services
          /\ c.kind \in {"throws", "plain"} => services' = services /\ routers' = routers
          /\ c.kind \in {"service", "router", "throws", "plain"}]_vars

\* After a constructor has thrown, a router has replaced the router registered
\* under its name, whose priority was another.
C25_Witness ==
  /\ pc = "install"
  /\ constructed.threw
  /\ constructed.last.kind = "router"
  /\ Len(routers) = 2
  /\ Len(services) = 0
  /\ Entry(routers, constructed.last.name) = constructed.last
  /\ routers[1] = constructed.last
  /\ routers[1].priority # routers[2].priority

\* ------------------------------------------------------------ and, or (C26, C27)
FnReturned(op) == ev.st = "returned" /\ ev.v.op = op
\* What each wrapped validator gives for the value of the call.
Results == [i \in 1..Len(ev.v.subs) |-> Apply(ev.v.subs[i], ev.value, Undef)]
NoneThrows == \A i \in 1..Len(ev.v.subs) : Results[i].r # "throw"
Stopping == {i \in 1..Len(ev.v.subs) : Results[i].r \in {"false", "error"}}
FirstStopping == CHOOSE i \in Stopping : \A j \in Stopping : i <= j
CallsUpTo(k) == [i \in 1..k |-> Call(ev.v.subs[i], ev.value)]

\* C26: and(v1..vn)(x) calls v1..vn in order; it returns the first result that
\* is false or an Error and calls no validator after it; it returns true when
\* no result is false or an Error.  and(type.String, len 8 or more) is false on
\* a string of 6 characters and true on a string of 8.
C26_AndShortCircuits ==
  FnReturned("and") /\ NoneThrows =>
    /\ IF Stopping = {}
       THEN /\ ev.out.r = "true"
            /\ ev.out.calls = CallsUpTo(Len(ev.v.subs))
       ELSE /\ ev.out.r = Results[FirstStopping].r
            /\ ev.out.msg = Results[FirstStopping].msg
            /\ ev.out.calls = CallsUpTo(FirstStopping)
    /\ ev.v = And(<<TypeString(1), LenGte(2, MinLength)>>) =>
         /\ ev.value = StrN(MinLength - 2) => ev.out.r = "false"
         /\ ev.value = StrN(MinLength) => ev.out.r = "true"

\* and returned the Error of its second validator of three, after two calls.
C26_Witness ==
  /\ FnReturned("and")
  /\ Len(ev.v.subs) = 3
  /\ ev.out.r = "error"
  /\ ev.out.msg = <<"Error", 2>>
  /\ Len(ev.out.calls) = 2

\* and(type.String, len.gte(8)) returned false on the string of 6 characters.
C26_SampleRejected ==
  /\ FnReturned("and")
  /\ ev.v = And(<<TypeString(1), LenGte(2, MinLength)>>)
  /\ ev.value = StrN(MinLength - 2)
  /\ ev.out.r = "false"
  /\ Len(ev.out.calls) = 2

\* C27: or(v1..vn)(x) calls every validator, and returns true exactly when one
\* of them returned true; an Error counts as false, so the result is a boolean
\* and never an Error.
C27_OrCallsAll ==
  FnReturned("or") /\ NoneThrows =>
    /\ ev.out.calls = CallsUpTo(Len(ev.v.subs))
    /\ ev.out.r \in {"true", "false"}
    /\ ev.out.msg = <<>>
    /\ ev.out.r = "true" <=> \E i \in 1..Len(ev.v.subs) : Results[i].r = "true"

\* or returned true after the first validator gave true and a later one an Error.
C27_Witness ==
  /\ FnReturned("or")
  /\ Len(ev.v.subs) = 3
  /\ Results[1].r = "true"
  /\ Results[3].r = "error"
  /\ ev.out.r = "true"
  /\ Len(ev.out.calls) = 3

\* ------------------------------------------- sub, type.Array, equalRef (C28-C30)
\* C28: sub(definition)(x) returns true exactly when x is a plain object and,
\* for every key of the definition, x has the key and the key's validator
\* returns true for x[key] (not false and not an Error).
C28_SubSatisfied ==
  FnReturned("sub") =>
    (ev.out.r = "true" <=>
       /\ PlainObject(ev.value)
       /\ \A i \in 1..Len(ev.v.keys) :
            /\ Has(ev.value, ev.v.keys[i])
            /\ Apply(ev.v.subs[i], Get(ev.value, ev.v.keys[i]), Undef).r = "true")

\* The element validator accepts the item: it returns neither false nor an Error.
ItemAccepted(validator, item) ==
  Apply(validator, item, Undef).r \notin {"false", "error", "throw"}
FailingItems ==
  {i \in 1..ev.value.n : ~ItemAccepted(ev.v.subs[1], ev.value.f[i])}

\* C29: type.Array(v, av)(x) returns true exactly when x is an array, every
\* element of x is accepted by v (when v is given) and the whole array is
\* accepted by av (when av is given); it returns false for every non-array, and
\* it stops at the first element whose validator returns false or an Error.
C29_ArrayAccepted ==
  FnReturned("type.Array") =>
    /\ ev.out.r = "true" <=>
         /\ ev.value.t = "arr"
         /\ ev.v.subs[1].op # "none" => FailingItems = {}
         /\ ev.v.subs[2].op # "none" => Apply(ev.v.subs[2], ev.value, Undef).r = "true"
    /\ ev.value.t # "arr" => ev.out.r = "false"
    /\ ev.value.t = "arr" /\ ev.v.subs[1].op # "none" /\ FailingItems # {} =>
         /\ ev.out.r \in {"false", "error"}
         /\ \E k \in FailingItems :
              /\ \A j \in FailingItems : k <= j
              /\ Len(ev.out.calls) = k

\* The operand the path names in the tree: a segment that is absent, or read
\* from undefined or null, gives undefined.
RECURSIVE Follow(_, _)
Follow(segments, tree) ==
  IF segments = <<>> THEN tree
  ELSE IF tree.t # "obj" THEN Undef
  ELSE Follow(Tail(segments), Get(tree, Head(segments)))

\* C30: equalRef(path)(value, tree) returns true exactly when value is strictly
\* equal to the value found by following the dotted path through tree; when a
\* segment is absent, or an intermediate value is undefined or null, the
\* operand is undefined and no exception is raised, so the result is false for
\* every defined value.
C30_EqualRefResolves ==
  FnReturned("equalRef") =>
    /\ ev.out.r # "throw"
    /\ ev.out.r = "true" <=> ev.value = Follow(ev.v.ref, ev.raw)

\* ------------------------------------------------------------ num, len (C31)
\* The subjects the comparison has no number or no length for.
NonNumeric(value) ==
  \/ value.t \in {"undef", "null", "bool"}
  \/ value.t = "str" /\ value.f = <<>>
NoLength(value) == value.t \in {"undef", "null", "num"}

\* C31: a num.* validator returns false and does not throw when its subject is
\* not numeric (undefined, null, a boolean, an empty string or a string that is
\* no numeral), and a len.* validator returns false and does not throw when its
\* subject has no length (undefined, null, a number).
C31_NoNumberNoLengthIsFalse ==
  /\ (FnReturned("num.gte") \/ FnReturned("num.lte")) /\ NonNumeric(ev.value)
       => ev.out.r = "false"
  /\ (FnReturned("len.gte") \/ FnReturned("len.lte")) /\ NoLength(ev.value)
       => ev.out.r = "false"

\* ------------------------------------------------------- hook arguments (C32)
HooksRunning == pc \in {"lifecycle", "awaiting"}

\* C32: a module's Injection hook is called with an object that has the entries
\* of the service registry and its Configuration hook with one that has the
\* entries of the configuration, and whatever entries a hook adds to, removes
\* from or replaces in the object it was given, the registry, the configuration
\* and the route table stay as they were.
C32_HookEditsArePrivate ==
  /\ [](pc = "awaiting" /\ ~lc.arg.edited =>
          /\ lc.arg.phase = "inject" => lc.arg.value = services
          /\ lc.arg.phase = "config" => lc.arg.value = config)
  /\ [][HooksRunning =>
          /\ services' = services
          /\ routers' = routers
          /\ config' = config
          /\ table' = table]_vars

\* An Injection hook has edited the object it was given, which now differs
\* from the registry, and the registry has its services.
C32_Witness ==
  /\ pc = "awaiting"
  /\ lc.arg.phase = "inject"
  /\ lc.arg.edited
  /\ lc.arg.value # services
  /\ services # <<>>

PendingAppends == {i \in 1..Len(lw.appends) : lw.appends[i].st = "pending"}
LogIn(seq, log) == \E i \in 1..Len(seq) : seq[i] = log

\* C34: the logs are appended to the file in the order of the writeToDisk calls
\* (the logs being numbered in that order), and at most one append is in flight
\* at any time, however the calls interleave with the appends.
C34_AppendsInOrderOneAtATime ==
  /\ Cardinality(PendingAppends) <= 1
  /\ \A i \in 1..Len(lw.disk) : \A j \in 1..Len(lw.disk) :
       i < j => lw.disk[i] < lw.disk[j]
  /\ \A i \in PendingAppends : \A j \in 1..Len(lw.disk) : lw.disk[j] < lw.appends[i].log

\* The first log is on disk, the second is being appended, and the third was
\* passed to writeToDisk meanwhile and waits in the queue.
C34_Witness ==
  /\ lw.disk = <<1>>
  /\ PendingAppends # {}
  /\ \A i \in PendingAppends : lw.appends[i].log = 2
  /\ lw.queue = <<3>>

\* C35: when the calls of writeToDisk have stopped and the appends complete,
\* the queue becomes empty and stays so and writing is false again; every log
\* is then on disk or, its append having failed, was passed to the error
\* callback, so a failed append neither blocks nor drops the logs after it.
C35_QueueDrains ==
  <>[](/\ lw.queue = <<>>
       /\ ~lw.writing
       /\ lw.appends = <<>>
       /\ \A log \in 1..lw.calls : LogIn(lw.disk, log) \/ LogIn(lw.reported, log))

\* The append of the first log failed and was reported, the logs after it
\* are on disk, and the writer is idle.
C35_Witness ==
  /\ lw.reported = <<1>>
  /\ lw.disk = <<2, 3>>
  /\ lw.queue = <<>>
  /\ ~lw.writing

\* C40: no log file has two archive or delete operations started for it, even
\* when the directory is scanned again while an archive is in progress.
C40_OneOperationPerFile == lw.started <= 1

\* ------------------------------------------- combinators and what they wrap (C36, C37)
\* A combinator around one validator, and that validator.
WrapsOne(ops) ==
  /\ ev.st = "returned"
  /\ ev.v.op \in ops
  /\ Len(ev.v.subs) = 1
Wrapped == ev.v.subs[1]

\* C36: and(equalRef(p)) and opt(equalRef(p)), called with a defined value and
\* the raw value tree, give what equalRef(p) gives for that value and tree.
C36_WrappedSeesRawValues ==
  WrapsOne({"and", "opt"}) /\ Wrapped.op = "equalRef" /\ ev.value.t # "undef" =>
    ev.out.r = Apply(Wrapped, ev.value, ev.raw).r

\* What the result comes to once it is awaited.
Awaited(out) ==
  IF out.r # "promise" THEN out.r
  ELSE IF out.msg[2] = "resolves-true" THEN "true" ELSE "false"
\* The combinator of the call around a synchronous validator that returns what
\* the asynchronous one resolves to.
SyncTwin ==
  [ev.v EXCEPT !.subs = <<Stub(Wrapped.id, Awaited(Apply(Wrapped, ev.value, Undef)))>>]

\* C37: and(v), or(v) and not(v) around an asynchronous validator v give, once
\* awaited, the verdict they give around a synchronous validator that returns
\* what v resolves to.
C37_AsyncAsSync ==
  WrapsOne({"and", "or", "not"}) /\ Wrapped.op = "stub" /\ Wrapped.gives \in Resolutions =>
    Awaited(ev.out) = Apply(SyncTwin, ev.value, ev.raw).r

\* ------------------------------------------------- what passes, what answers (C38, C39)
\* C38: the middleware calls next() only if every validator it called gave
\* true; false, an Error, undefined or an object such as { valid: false } all
\* reject the request.
C38_NextOnlyIfAllTrue ==
  rq.nexts > 0 =>
    \A i \in 1..Len(rq.calls) : rq.calls[i].op = "resolve" => rq.calls[i].r = "true"

\* C39: once the middleware is done with a request, whatever its validators
\* returned or threw, it has called next() once or sent one response, not
\* both and not neither.
C39_NextOrResponse ==
  rq.st = "done" =>
    \/ rq.nexts = 1 /\ rq.sent = 0
    \/ rq.nexts = 0 /\ rq.sent = 1

====
